---- MODULE Spec2Model ----
(***************************************************************************)
(* State-machine model of the OpenMATBC scenario engine:                   *)
(*   - the scenario compiler (getCommand, loadScenario, validateScenario), *)
(*   - the priority dispatcher (executeScenario, waitEndofPause),          *)
(*   - the clock scheduler loop (scheduler, scenarioUpdateTime),           *)
(*   - the host side of the synchronisation session (server.py) and the    *)
(*     participant side (doNetworkCommunications).                         *)
(* One process (role none / server / client) is modelled; its peer is the  *)
(* environment.  Time is counted in milliseconds.                          *)
(***************************************************************************)
EXTENDS Integers, Sequences, FiniteSets, TLC

(***************************************************************************)
(* Bounds of the model.                                                    *)
(***************************************************************************)
\* the wall clock stops advancing MaxNow ms after process start
MaxNow == 7000
\* the peer's (Host's) virtual clock, as seen by a Participant, stops here
MaxHostTime == 3500
\* a Participant that connects does so at most this long after the Host started
MaxConnectDelay == 700
\* misrouted entries a peer sends in a row
MaxMisrouted == 13
\* the wall clock of a Host that is followed beyond the grace period stops
\* GraceHorizon ms after process start
GraceHorizon == 14000

(***************************************************************************)
(* Program constants.                                                      *)
(***************************************************************************)
MAIN_SCHEDULER_INTERVAL == 1
connection_timeout == 5
\* time.time() at process start, in ms: far from the epoch, so that
\* time.time() - 0 exceeds every timeout
StartTime == 10000

\* Python's None where an integer is expected (UPDATE_TIME, taskupdatetime)
None == -1
\* scenarioTimeStr before the first call of scenarioUpdateTime
NoTimeStr == <<>>

(***************************************************************************)
(* Characters and strings.  A TIME field is a sequence of one-character    *)
(* strings; every other field of a scenario line is an atomic string.      *)
(***************************************************************************)
Digits == {"0", "1", "2", "3", "4", "5", "6", "7", "8", "9"}

\* ord() of the characters that occur in TIME fields
CharCode(c) ==
    CASE c = "-" -> 45
      [] c = "0" -> 48 [] c = "1" -> 49 [] c = "2" -> 50 [] c = "3" -> 51
      [] c = "4" -> 52 [] c = "5" -> 53 [] c = "6" -> 54 [] c = "7" -> 55
      [] c = "8" -> 56 [] c = "9" -> 57
      [] c = ":" -> 58
      [] OTHER -> 120

DigitChar(d) ==
    CASE d = 0 -> "0" [] d = 1 -> "1" [] d = 2 -> "2" [] d = 3 -> "3"
      [] d = 4 -> "4" [] d = 5 -> "5" [] d = 6 -> "6" [] d = 7 -> "7"
      [] d = 8 -> "8" [] d = 9 -> "9"

\* str.isnumeric(): non-empty and made of digits only
isnumeric(s) == Len(s) > 0 /\ \A i \in 1..Len(s) : s[i] \in Digits

\* int() of a string of digits
RECURSIVE IntOfDigits(_)
IntOfDigits(s) ==
    IF Len(s) = 0 THEN 0
    ELSE 10 * IntOfDigits(SubSeq(s, 1, Len(s) - 1)) + (CharCode(s[Len(s)]) - 48)

\* str.split('-') of a TIME field
RECURSIVE SplitDash(_)
SplitDash(s) ==
    IF \A i \in 1..Len(s) : s[i] # "-" THEN <<s>>
    ELSE LET i == CHOOSE j \in 1..Len(s) :
                      s[j] = "-" /\ \A k \in 1..(j - 1) : s[k] # "-"
         IN  <<SubSeq(s, 1, i - 1)>> \o SplitDash(SubSeq(s, i + 1, Len(s)))

\* Python's < on two strings (lexicographic by code point)
RECURSIVE StrLess(_, _)
StrLess(a, b) ==
    IF Len(b) = 0 THEN FALSE
    ELSE IF Len(a) = 0 THEN TRUE
    ELSE IF CharCode(a[1]) # CharCode(b[1]) THEN CharCode(a[1]) < CharCode(b[1])
    ELSE StrLess(Tail(a), Tail(b))

\* "%d" and "%02d" of a non-negative integer
RECURSIVE FormatD(_)
FormatD(n) == IF n < 10 THEN <<DigitChar(n)>>
              ELSE FormatD(n \div 10) \o <<DigitChar(n % 10)>>

Format02D(n) == IF n < 10 THEN <<"0">> \o FormatD(n) ELSE FormatD(n)

(***************************************************************************)
(* Plugins of the Plugins directory that the model loads.                  *)
(***************************************************************************)
Plugins == {"instruction", "scoreboard", "track"}

\* 'taskupdatetime' of each plugin's parameters at construction
InitialUpdateTime(p) ==
    CASE p = "instruction" -> None
      [] p = "scoreboard" -> 1000
      [] p = "track" -> 20

\* plugins whose parameters hold NETWORK_WHILE_PAUSED = True
NetworkWhilePaused == {"instruction"}

\* the keys of Main.parameters
MainParameters == {"showlabels", "allowescape", "messagetolog", "allowaltf4"}

\* hasattr(taskclass, "on" + verb.capitalize())
HasAttr(task, verb) ==
    IF task = "__main__" THEN verb \in {"end", "pause", "resume"}
    ELSE verb \in {"start", "update"}

\* the parameter tree of each task: key -> type of the current value
ParameterKinds(task) ==
    CASE task = "__main__" ->
             [showlabels |-> "bool", allowescape |-> "bool",
              messagetolog |-> "str", allowaltf4 |-> "bool"]
      [] task = "instruction" ->
             [taskupdatetime |-> "none", filename |-> "str"]
      [] task = "scoreboard" ->
             [taskupdatetime |-> "int", title |-> "str"]
      [] task = "track" ->
             [taskupdatetime |-> "int", title |-> "str", automaticsolver |-> "bool",
              network |-> "str"]

\* walks the address through the parameter tree; the trees modelled are
\* flat and the addresses dash-free, so the walk is one dictionary lookup
testParameterVariable(task, adress) == adress \in DOMAIN ParameterKinds(task)

(***************************************************************************)
(* Scenario lines.  A line is [time |-> TIME field, rest |-> the other     *)
(* fields]; lineList of the source is <<time>> \o rest.                    *)
(***************************************************************************)
Error == [error |-> TRUE]

\* Every error ends the compile.  After its critical message getCommand
\* returns three values where loadScenario unpacks four, and for a wrong
\* time format it goes on to a return that reads the unassigned `priority`:
\* in each case loadScenario is left by an exception, or by sys.exit when
\* the operator answers Abort.
getCommand(line) ==
    LET n == 1 + Len(line.rest)
        rest == IF n = 2 \/ (n > 1 /\ Len(line.rest) > 0
                              /\ line.rest[1] \in MainParameters)
                THEN <<"__main__">> \o line.rest
                ELSE line.rest
        task == rest[1]
        command == SubSeq(rest, 2, Len(rest))
        splitTime == SplitDash(line.time)
        timeOk == \/ Len(line.time) = 7
                  \/ /\ Len(splitTime) = 2
                     /\ Len(splitTime[1]) = 7
                     /\ isnumeric(splitTime[2])
        time == IF Len(line.time) = 7 THEN line.time ELSE splitTime[1]
        priority == IF Len(line.time) = 7 THEN 0 ELSE IntOfDigits(splitTime[2])
    IN  IF ~(1 < n /\ n < 5) THEN Error
        ELSE IF task # "__main__" /\ task \notin Plugins THEN Error
        ELSE IF ~timeOk THEN Error
        ELSE IF Len(command) = 1
             THEN IF ~HasAttr(task, command[1])
                     /\ command[1] \notin {"start", "stop", "hide", "pause",
                                           "show", "resume"}
                  THEN Error
                  ELSE [error |-> FALSE, time |-> time, task |-> task,
                        command |-> command, priority |-> priority]
             ELSE IF ~testParameterVariable(task, command[1]) THEN Error
                  ELSE [error |-> FALSE, time |-> time, task |-> task,
                        command |-> command, priority |-> priority]

(***************************************************************************)
(* scenario_content is a dictionary time -> task -> list of (command,      *)
(* priority); dictionaries keep insertion order, so it is modelled as a    *)
(* sequence of [time, tasks], tasks a sequence of [task, cmds].  Each      *)
(* entry also carries the number of its line, which the program does not   *)
(* store: it identifies the command in the properties.                     *)
(***************************************************************************)
EmptyLoad == [error |-> FALSE, content |-> <<>>, loadedTasks |-> <<>>]

InSeq(x, s) == \E i \in 1..Len(s) : s[i] = x

TimeIndex(content, time) ==
    IF \E i \in 1..Len(content) : content[i].time = time
    THEN CHOOSE i \in 1..Len(content) : content[i].time = time
    ELSE 0

TaskIndex(tasks, task) ==
    IF \E i \in 1..Len(tasks) : tasks[i].task = task
    THEN CHOOSE i \in 1..Len(tasks) : tasks[i].task = task
    ELSE 0

\* one iteration of the loop over the lines of the file: c is the result
\* of getCommand, which makes the process exit when it reports an error
AppendCommand(tasks, ki, c, lineNumber) ==
    [tasks EXCEPT ![ki].cmds =
        Append(@, [command |-> c.command, priority |-> c.priority,
                   line |-> lineNumber])]

WithTask(tasks, c, lineNumber) ==
    IF TaskIndex(tasks, c.task) = 0
    THEN AppendCommand(Append(tasks, [task |-> c.task, cmds |-> <<>>]),
                       Len(tasks) + 1, c, lineNumber)
    ELSE AppendCommand(tasks, TaskIndex(tasks, c.task), c, lineNumber)

InsertCommand(content, ti, c, lineNumber) ==
    [content EXCEPT ![ti].tasks = WithTask(@, c, lineNumber)]

WithTime(content, c, lineNumber) ==
    IF TimeIndex(content, c.time) = 0
    THEN InsertCommand(Append(content, [time |-> c.time, tasks |-> <<>>]),
                       Len(content) + 1, c, lineNumber)
    ELSE InsertCommand(content, TimeIndex(content, c.time), c, lineNumber)

AddCommand(acc, lineNumber, c) ==
    IF acc.error \/ c.error THEN [acc EXCEPT !.error = TRUE]
    ELSE [error |-> FALSE,
          content |-> WithTime(acc.content, c, lineNumber),
          loadedTasks |-> IF InSeq(c.task, acc.loadedTasks) THEN acc.loadedTasks
                          ELSE Append(acc.loadedTasks, c.task)]

AddLine(acc, lineNumber, line) == AddCommand(acc, lineNumber, getCommand(line))

RECURSIVE LoadLines(_, _)
LoadLines(file, n) ==
    IF n = 0 THEN EmptyLoad
    ELSE AddLine(LoadLines(file, n - 1), n - 1, file[n])

\* all (command, priority) entries of a task, over every time of the scenario
RECURSIVE EntriesOf(_, _)
EntriesOf(content, task) ==
    IF Len(content) = 0 THEN <<>>
    ELSE LET ki == TaskIndex(content[1].tasks, task)
         IN  (IF ki = 0 THEN <<>> ELSE content[1].tasks[ki].cmds)
             \o EntriesOf(Tail(content), task)

\* sorted(scenario_content.items())[-1]: the entry with the greatest key
LastTimeIndex(content) ==
    CHOOSE i \in 1..Len(content) :
        \A j \in 1..Len(content) : j = i \/ StrLess(content[j].time, content[i].time)

\* a validation that accepts every timeline
AcceptsAnyTimeline(content, loadedTasks) == TRUE

\* a validation that does not look for the start command of the tasks
AcceptsWithoutStart(content, loadedTasks) ==
    /\ Len(content) > 0
    /\ LET last == content[LastTimeIndex(content)]
           lastcmd == last.tasks[Len(last.tasks)].cmds
       IN  /\ ~(Len(last.tasks) > 1)
           /\ InSeq("end", lastcmd[1].command)
    /\ ~(Len(loadedTasks) <= 1)

validateScenario(content, loadedTasks) ==
    /\ \A i \in 1..Len(loadedTasks) :
           LET checktask == loadedTasks[i]
               entries == EntriesOf(content, checktask)
           IN  checktask # "__main__" =>
                   /\ Len(entries) # 0
                   /\ \E e \in 1..Len(entries) : entries[e].command[1] = "start"
    /\ Len(content) > 0
    /\ LET last == content[LastTimeIndex(content)]
           lastcmd == last.tasks[Len(last.tasks)].cmds
       IN  /\ ~(Len(last.tasks) > 1)
           /\ InSeq("end", lastcmd[1].command)
    /\ ~(Len(loadedTasks) <= 1)

\* loadScenario: the compiled timeline together with loadedTasks, or the
\* error that makes the process exit
loadScenario(file) ==
    LET r == LoadLines(file, Len(file))
    IN  IF r.error THEN r
        ELSE IF ~validateScenario(r.content, r.loadedTasks)
             THEN [r EXCEPT !.error = TRUE]
             ELSE r

(***************************************************************************)
(* executeScenario: the order in which the commands of one time are run.   *)
(***************************************************************************)
RECURSIVE Flatten(_)
Flatten(ss) == IF Len(ss) = 0 THEN <<>> ELSE ss[1] \o Flatten(Tail(ss))

\* entries tagged with their task, in the order of the nested task / command loops
TaggedEntries(tasks) ==
    Flatten([k \in 1..Len(tasks) |->
               [c \in 1..Len(tasks[k].cmds) |->
                  [task |-> tasks[k].task,
                   command |-> tasks[k].cmds[c].command,
                   priority |-> tasks[k].cmds[c].priority,
                   line |-> tasks[k].cmds[c].line]]])

\* a sort of the priorities that leaves out reverse=True
RECURSIVE SortAscending(_)
SortAscending(S) ==
    IF S = {} THEN <<>>
    ELSE LET m == CHOOSE x \in S : \A y \in S : x <= y
         IN  <<m>> \o SortAscending(S \ {m})

\* priorities.sort(reverse=True) of the distinct priorities
RECURSIVE SortDescending(_)
SortDescending(S) ==
    IF S = {} THEN <<>>
    ELSE LET m == CHOOSE x \in S : \A y \in S : y <= x
         IN  <<m>> \o SortDescending(S \ {m})

RECURSIVE Reverse(_)
Reverse(q) == IF Len(q) = 0 THEN <<>> ELSE Append(Reverse(Tail(q)), q[1])

\* a tier that is walked from the last entry to the first
AtPriorityReversed(entries, cur_priority) ==
    Reverse(SelectSeq(entries, LAMBDA e : e.priority = cur_priority))

\* the commands of one tier: `if priority != cur_priority: continue`
AtPriority(entries, cur_priority) ==
    SelectSeq(entries, LAMBDA e : e.priority = cur_priority)

ExecOrder(content, time) ==
    LET ti == TimeIndex(content, time)
        entries == TaggedEntries(content[ti].tasks)
        priorities == SortDescending({entries[i].priority : i \in 1..Len(entries)})
    IN  IF ti = 0 THEN <<>>
        ELSE Flatten([p \in 1..Len(priorities) |->
                        AtPriority(entries, priorities[p])])

(***************************************************************************)
(* Scenario files the process is started on.                               *)
(***************************************************************************)
T0 == <<"0", ":", "0", "0", ":", "0", "0">>
T1 == <<"0", ":", "0", "0", ":", "0", "1">>
T2 == <<"0", ":", "0", "0", ":", "0", "2">>
T3 == <<"0", ":", "0", "0", ":", "0", "3">>
P5 == <<"-", "5">>
P10 == <<"-", "1", "0">>

Line(time, rest) == [time |-> time, rest |-> rest]

\* the example of the specification, on a shorter time scale
ScenarioBasic ==
    << Line(T0, <<"track", "start">>),
       Line(T1, <<"track", "pause">>),
       Line(T2, <<"track", "resume">>),
       Line(T3, <<"end">>) >>

\* two priority tiers at 0:00:01, the lines of two tasks interleaved
ScenarioTiers ==
    << Line(T0, <<"scoreboard", "start">>),
       Line(T0, <<"track", "start">>),
       Line(T1, <<"track", "hide">>),
       Line(T1 \o P5, <<"track", "taskupdatetime", "500">>),
       Line(T1 \o P5, <<"scoreboard", "hide">>),
       Line(T1 \o P5, <<"track", "show">>),
       Line(T1 \o P10, <<"scoreboard", "title", "Score">>),
       Line(T2, <<"end">>) >>

\* a modal screen that pauses the session in the middle of a time
ScenarioModal ==
    << Line(T0, <<"scoreboard", "start">>),
       Line(T0, <<"instruction", "filename", "intro.txt">>),
       Line(T1, <<"instruction", "start">>),
       Line(T1, <<"track", "start">>),
       Line(T2, <<"scoreboard", "stop">>),
       Line(T3, <<"end">>) >>

\* the terminal instant holds `end` and further commands of the main script
ScenarioTwoEnds ==
    << Line(T0, <<"track", "start">>),
       Line(T1, <<"messagetolog", "bye">>),
       Line(T2, <<"end">>),
       Line(T2, <<"end">>),
       Line(T2, <<"allowescape", "false">>) >>

\* rejected: the track plugin has no start command
ScenarioNoStart ==
    << Line(T0, <<"track", "show">>),
       Line(T1, <<"end">>) >>

\* rejected: unknown plugin
ScenarioUnknownTask ==
    << Line(T0, <<"track", "start">>),
       Line(T0, <<"radar", "start">>),
       Line(T1, <<"end">>) >>

\* rejected: a line of five fields
ScenarioBadFieldCount ==
    << Line(T0, <<"track", "start">>),
       Line(T0, <<"track", "title", "Tracking", "now">>),
       Line(T1, <<"end">>) >>

\* rejected: a TIME field of six characters
ScenarioBadTime ==
    << Line(T0, <<"track", "start">>),
       Line(<<"0", ":", "0", "0", ":", "1">>, <<"scoreboard", "start">>),
       Line(T1, <<"end">>) >>

\* rejected: the track plugin has no onExplode
ScenarioUnknownVerb ==
    << Line(T0, <<"track", "start">>),
       Line(T0, <<"track", "explode">>),
       Line(T1, <<"end">>) >>

\* rejected: the track plugin has no parameter colour
ScenarioUnknownParameter ==
    << Line(T0, <<"track", "start">>),
       Line(T0, <<"track", "colour", "red">>),
       Line(T1, <<"end">>) >>

\* values that cannot be coerced: a bool field that is given neither true
\* nor false, an int field that is given a word
ScenarioBadCoercion ==
    << Line(T0, <<"track", "start">>),
       Line(T0, <<"track", "automaticsolver", "maybe">>),
       Line(T0, <<"track", "taskupdatetime", "fast">>),
       Line(T1, <<"end">>) >>

\* a task that is started, stopped and started again
ScenarioRestart ==
    << Line(T0, <<"track", "start">>),
       Line(T0, <<"track", "stop">>),
       Line(T0, <<"track", "start">>),
       Line(T1, <<"end">>) >>

\* a pause and a resume addressed to the main script
ScenarioMainPause ==
    << Line(T0, <<"track", "start">>),
       Line(T0, <<"pause">>),
       Line(T0, <<"resume">>),
       Line(T1, <<"end">>) >>

\* the tracking task is networked: the Host is authoritative for it
ScenarioNetTrack ==
    << Line(T0, <<"track", "network", "as_host">>),
       Line(T0, <<"track", "taskupdatetime", "1000">>),
       Line(T0, <<"track", "start">>),
       Line(T1, <<"track", "pause">>),
       Line(T2, <<"track", "resume">>),
       Line(T2, <<"instruction", "start">>),
       Line(T3, <<"end">>) >>

\* the tracking task is given the server role on both processes
ScenarioServerTrack ==
    << Line(T0, <<"track", "network", "server">>),
       Line(T0, <<"track", "start">>),
       Line(T1, <<"end">>) >>

Scenarios == {ScenarioBasic, ScenarioTiers, ScenarioModal, ScenarioTwoEnds,
              ScenarioNoStart, ScenarioUnknownTask, ScenarioBadFieldCount,
              ScenarioBadTime, ScenarioUnknownVerb, ScenarioUnknownParameter,
              ScenarioBadCoercion, ScenarioRestart, ScenarioMainPause}

(***************************************************************************)
(* State of one process.                                                   *)
(***************************************************************************)
VARIABLES
    role,                    \* "none", "server" or "client" (is_server / is_client)
    scenario_file,           \* the scenario file the process was started on
    scenariocontents,        \* the compiled timeline
    loadedTasks,
    pc,                      \* position of the process, see PcValues
    main_loop_started,       \* continued_init has started main_loop_caller
    already_a_main_loop_running,
    ticks_in_flight,         \* calls of scheduler started by mainLoop and not returned
    exec_idx,                \* executeScenario: index of the next command
    PLUGINS_TASK,
    parameters,
    scenarioTimeStr,
    totalElapsedTime_ms,
    last_time_microsec,
    elapsed_time_ms,         \* scheduler's local, kept over the teardown sleep
    now,                     \* the wall clock (time.time(), default_timer()) in ms
    last_client_sync,
    am_connected,
    experiment_pause,
    experiment_running,
    termination_message_sent,
    ended_time,
    reactor_stopped,         \* twisted.internet.reactor.stop() was called
    instruction,             \* termination state of the instruction plugin
    error_counter,           \* of the perspective broker of the Host
    \* the peer, as far as this process can observe it
    host_time,               \* the Host's virtual clock (what get_time returns)
    peer_alive,              \* the Participant still issues remote calls
    \* history variables, not part of the program
    dispatch_log,            \* commands executed, in order
    executed_times,          \* times executeScenario found in the timeline
    update_count,            \* onUpdate invocations by plugin
    end_calls,               \* executions of end()
    last_get_time,           \* last value returned by get_time
    run_since,               \* wall time not spent paused since the last tick
    ref_clock, ref_TSU, ref_updates, \* the run that is given run_since as tick length
    sync_data,               \* keys of the last answer of remote_get_sync_data
    input_log,               \* what the last remote_pass_new_input did with each entry
    misrouted_seen,          \* misrouted entries since the last call without any
    sync_applied,            \* what the last call of scheduler or turn of
                             \* waitEndofPause did with the payload of each plugin
    rpc_calls,               \* the remote calls it issued, in order
    popped,                  \* the plugins whose popNewInputs it called
    \* a Host and its Participant at consecutive modal screens, by side
    modal,                   \* termination state of the modal plugin
    in_pause,                \* experiment_pause
    started,                 \* screens started (onStart)
    resumed,                 \* screens left (terminate)
    closed,                  \* screens the user has terminated (terminate_event)
    exchange,                \* doNetworkCommunications of the Participant
    \* ScenarioGenerator.generate, one segment of the configuration per step
    gen_pc,                  \* "generating", "raised" (ValueError) or "closed"
    cur_time,
    zero_duration_priority,
    general_priority,        \* generate_segment's argument at the last call
    segment_text,            \* the commands of the last segment generated
    lowest_earlier,          \* lowest priority among the commands that earlier
                             \* zero-duration segments emitted at cur_time
    segments_done,
    \* one TIME field from the generator to the dispatcher
    arg_secs,                \* secs_to_time's secs
    arg_priority,            \* secs_to_time's priority
    time_field,              \* what secs_to_time returned
    parsed,                  \* what getCommand made of a line with that field
    clock_ms                 \* a virtual clock for scenarioUpdateTime

vars == << role, scenario_file, scenariocontents, loadedTasks, pc,
           main_loop_started, exec_idx, PLUGINS_TASK, parameters,
           scenarioTimeStr, totalElapsedTime_ms, last_time_microsec,
           elapsed_time_ms, now, last_client_sync, am_connected,
           experiment_pause, experiment_running, termination_message_sent,
           ended_time, reactor_stopped, instruction, error_counter,
           host_time, peer_alive, dispatch_log, executed_times, update_count,
           end_calls, last_get_time, run_since, ref_clock, ref_TSU, ref_updates,
           sync_data, input_log, misrouted_seen,
           already_a_main_loop_running, ticks_in_flight,
           modal, in_pause, started, resumed, closed, exchange,
           sync_applied, rpc_calls, popped,
           gen_pc, cur_time, zero_duration_priority, general_priority,
           segment_text, lowest_earlier, segments_done,
           arg_secs, arg_priority, time_field, parsed, clock_ms >>

\* the scenario generator
gen_vars == << gen_pc, cur_time, zero_duration_priority, general_priority,
              segment_text, lowest_earlier, segments_done >>

\* a TIME field on its way from the generator to the dispatcher
trip_vars == << arg_secs, arg_priority, time_field, parsed, clock_ms >>

\* the history of the last exchange of a Participant
exchange_vars == << sync_applied, rpc_calls, popped >>

\* a Host and its Participant at the modal screens
pair_vars == << modal, in_pause, started, resumed, closed, exchange >>

Sides == {"host", "participant"}

\* the termination state a modal plugin is constructed with
NewModal == [terminated |-> FALSE, partner_terminated |-> FALSE,
             partner_told_terminated |-> FALSE, active |-> FALSE]

\* the re-entrancy guard of mainLoop
loop_vars == << already_a_main_loop_running, ticks_in_flight >>

\* the history of the remote calls served
broker_vars == << sync_data, input_log, misrouted_seen >>

\* positions: "init" continued_init before the scenario is loaded;
\* "aborted" the compile failed and the process exited; "waitconn" the Host
\* polls get_connected(); "idle" between two ticks of the main loop; "exec"
\* inside executeScenario; "barrier" suspended in the loop of waitEndofPause;
\* "teardown_sleep" suspended in the sleep before end(); "crashed" an
\* exception ended the coroutine and with it the main loop; "exited"
\* sys.exit() was called; "ended" the reactor has stopped.
PcValues == {"init", "aborted", "waitconn", "idle", "exec", "barrier",
             "teardown_sleep", "crashed", "exited", "ended"}

\* the tick lengths and clock steps the environment chooses from
TickLengths == {700, 2100}

Roles == {"none", "server", "client"}
is_server == role = "server"
is_client == role = "client"

InitialParameters ==
    [t \in Plugins \cup {"__main__"} |->
       CASE t = "__main__" -> [showlabels |-> TRUE, allowescape |-> TRUE,
                               messagetolog |-> "", allowaltf4 |-> TRUE]
         [] t = "instruction" -> [taskupdatetime |-> None, filename |-> ""]
         [] t = "scoreboard" -> [taskupdatetime |-> 1000, title |-> "Scoreboard"]
         [] t = "track" -> [taskupdatetime |-> 20, title |-> "Tracking",
                            automaticsolver |-> FALSE, network |-> "no"]]

\* Main.__init__: the attributes of a process started on one of files
ProcessInit(files) ==
    /\ role \in Roles
    /\ scenario_file \in files
    /\ scenariocontents = <<>>
    /\ loadedTasks = <<>>
    /\ pc = "init"
    /\ main_loop_started = FALSE
    /\ already_a_main_loop_running = FALSE
    /\ ticks_in_flight = 0
    /\ exec_idx = 0
    /\ PLUGINS_TASK = [p \in Plugins |->
                         [taskRunning |-> FALSE, taskPaused |-> FALSE,
                          taskVisible |-> FALSE, taskPreviouslyPaused |-> FALSE,
                          TIME_SINCE_UPDATE |-> 0,
                          UPDATE_TIME |-> InitialUpdateTime(p)]]
    /\ parameters = InitialParameters
    /\ scenarioTimeStr = NoTimeStr
    /\ totalElapsedTime_ms = 0
    /\ last_time_microsec = 0
    /\ elapsed_time_ms = 0
    /\ now = StartTime
    /\ last_client_sync = 0
    /\ am_connected = FALSE
    /\ experiment_pause = FALSE
    /\ experiment_running = TRUE
    /\ termination_message_sent = FALSE
    /\ ended_time = 0
    /\ reactor_stopped = FALSE
    /\ instruction = [terminated |-> FALSE, partner_terminated |-> FALSE,
                      partner_told_terminated |-> FALSE, active |-> FALSE]
    /\ error_counter = 0
    /\ host_time = 0
    /\ peer_alive = TRUE
    /\ dispatch_log = <<>>
    /\ executed_times = <<>>
    /\ update_count = [p \in Plugins |-> 0]
    /\ end_calls = 0
    /\ last_get_time = 0
    /\ run_since = 0
    /\ ref_clock = 0
    /\ ref_TSU = [p \in Plugins |-> 0]
    /\ ref_updates = [p \in Plugins |-> 0]
    /\ sync_data = {}
    /\ input_log = <<>>
    /\ misrouted_seen = 0
    /\ sync_applied = [p \in Plugins |-> "none"]
    /\ rpc_calls = <<>>
    /\ popped = {}
    /\ modal = [s \in Sides |-> NewModal]
    /\ in_pause = [s \in Sides |-> FALSE]
    /\ started = [s \in Sides |-> 0]
    /\ resumed = [s \in Sides |-> 0]
    /\ closed = [s \in Sides |-> 0]
    /\ exchange = "none"

\* priorities of the scenario generator
ZERO_DURATION_BASE_PRIORITY == 100000
ZERO_DURATION_PRIORITY_DECREMENT == 10000
FLAG_PRIORITY == 1000
END_FLAG_PRIORITY == 1000000
MIN_INSTRUCTION_PRIORITY == 200
MIN_SCALES_PRIORITY == 100

\* ScenarioGenerator.generate before its loop over the segments
GeneratorStart ==
    /\ gen_pc = "generating"
    /\ cur_time = 0
    /\ zero_duration_priority = ZERO_DURATION_BASE_PRIORITY
    /\ general_priority = 0
    /\ segment_text = <<>>
    /\ lowest_earlier = None
    /\ segments_done = 0

\* no line has been given to getCommand yet
NotParsed == [pending |-> TRUE]

\* no TIME field under way
NoRoundTrip ==
    /\ arg_secs = 0
    /\ arg_priority = None
    /\ time_field = NoTimeStr
    /\ parsed = NotParsed
    /\ clock_ms = 0

\* the state after construction of a process started on one of files
InitOn(files) ==
    /\ GeneratorStart
    /\ NoRoundTrip
    /\ ProcessInit(files)


Init == InitOn(Scenarios)

(***************************************************************************)
(* Helpers of the scheduler and of the dispatcher.                         *)
(***************************************************************************)
\* scenarioUpdateTime: "%d:%02d:%02d" % (h, m, s) of the virtual clock
FormatTime(ms) ==
    LET secs == ms \div 1000
        h == secs \div 3600
        m == (secs \div 60) % 60
        sec == secs % 60
    IN  FormatD(h) \o <<":">> \o Format02D(m) \o <<":">> \o Format02D(sec)

\* a scenarioUpdateTime that dispatches on every call
TimeStrAlwaysNeedsUpdate(s, previous) == TRUE

\* scenarioUpdateTime: the dispatcher runs only for a new time string
TimeStrNeedsUpdate(s, previous) == s # previous

\* a continued_init that does not wait for the Participant
get_connected_unchecked(connected) == TRUE

\* continued_init of the Host: the loop `while not self.get_connected()`
get_connected(connected) == connected

\* a waitEndofPause that leaves last_time_microsec as it was
LastTimeKeptOverPause(current, previous) == previous

\* waitEndofPause: the last statement restarts the measure of elapsed time
LastTimeAfterPause(current, previous) == current

\* a Participant that advances its clock by its own elapsed time
ClientTimeAdvancedLocally(old_time, new_time, elapsed) == old_time + elapsed

\* scheduler: the clock of a Participant after get_time
ClientTime(old_time, new_time, elapsed) == new_time

\* scheduler: the teardown condition of the Host
\* a test that compares the silence with the scheduler interval
TeardownOnShortSilence ==
    /\ is_server
    /\ \/ /\ ~experiment_running
          /\ \/ termination_message_sent
             \/ ended_time - now > 10 * 1000
       \/ now - last_client_sync > MAIN_SCHEDULER_INTERVAL

\* a test made by every process, networked or not
TeardownForAnyRole ==
    \/ /\ ~experiment_running
       /\ \/ termination_message_sent
          \/ ended_time - now > 10 * 1000
    \/ now - last_client_sync > connection_timeout * 1000

\* a test that does not wait for the termination message to be sent
TeardownOnLocalEnd ==
    /\ is_server
    /\ \/ ~experiment_running
       \/ now - last_client_sync > connection_timeout * 1000

TeardownCondition ==
    /\ is_server
    /\ \/ /\ ~experiment_running
          /\ \/ termination_message_sent
             \/ ended_time - now > 10 * 1000
       \/ now - last_client_sync > connection_timeout * 1000

\* scheduler: the update of one loaded plugin for a tick of length elapsed
Accumulates(pt) == pt.UPDATE_TIME # None /\ ~pt.taskPaused

ReadyForUpdate(pt, tsu, elapsed) ==
    Accumulates(pt) /\ tsu + elapsed >= pt.UPDATE_TIME

AccumulatorAfter(pt, tsu, elapsed) ==
    IF ~Accumulates(pt) THEN tsu
    ELSE IF ReadyForUpdate(pt, tsu, elapsed) THEN 0
    ELSE tsu + elapsed

IsLoaded(p) == InSeq(p, loadedTasks)

\* Main.onPause: every plugin is paused, its previous flag recorded
PausedTasks(PT) ==
    [p \in Plugins |-> [PT[p] EXCEPT !.taskPreviouslyPaused = PT[p].taskPaused,
                                     !.taskPaused = TRUE]]

\* Main.onResume: plugins running and not paused before the pause are resumed
ResumedTasks(PT) ==
    [p \in Plugins |->
       IF PT[p].taskRunning /\ ~PT[p].taskPreviouslyPaused
       THEN [PT[p] EXCEPT !.taskPaused = FALSE]
       ELSE PT[p]]

\* a dispatcher whose pause command also hides the plugin
LifecyclePauseHides(pt, verb) ==
    CASE verb = "start" -> [pt EXCEPT !.taskRunning = TRUE, !.taskVisible = TRUE,
                                      !.taskPaused = FALSE]
      [] verb = "stop" -> [pt EXCEPT !.taskRunning = FALSE, !.taskPaused = TRUE,
                                     !.taskVisible = FALSE]
      [] verb = "show" -> [pt EXCEPT !.taskVisible = TRUE]
      [] verb = "hide" -> [pt EXCEPT !.taskVisible = FALSE]
      [] verb = "pause" -> [pt EXCEPT !.taskPaused = TRUE, !.taskVisible = FALSE]
      [] verb = "resume" -> [pt EXCEPT !.taskPaused = FALSE]
      [] OTHER -> pt

\* executeScenario: the state change of a lifecycle command
LifecycleState(pt, verb) ==
    CASE verb = "start" -> [pt EXCEPT !.taskRunning = TRUE, !.taskVisible = TRUE,
                                      !.taskPaused = FALSE]
      [] verb = "stop" -> [pt EXCEPT !.taskRunning = FALSE, !.taskPaused = TRUE,
                                     !.taskVisible = FALSE]
      [] verb = "show" -> [pt EXCEPT !.taskVisible = TRUE]
      [] verb = "hide" -> [pt EXCEPT !.taskVisible = FALSE]
      [] verb = "pause" -> [pt EXCEPT !.taskPaused = TRUE]
      [] verb = "resume" -> [pt EXCEPT !.taskPaused = FALSE]
      [] OTHER -> pt

\* int(value) for the numerals of the scenario files; -1 stands for ValueError
IntOfValue(value) ==
    CASE value = "20" -> 20 [] value = "500" -> 500 [] value = "1000" -> 1000
      [] OTHER -> -1

\* value.lower()
Lower(value) ==
    CASE value \in {"true", "True", "TRUE"} -> "true"
      [] value \in {"false", "False", "FALSE"} -> "false"
      [] OTHER -> value

\* setParameterVariable: the value after coercion to the type of the field
CoercedValue(task, variable, value, current) ==
    LET kind == ParameterKinds(task)[variable]
    IN  CASE kind = "bool" -> IF Lower(value) = "true" THEN TRUE
                              ELSE IF Lower(value) = "false" THEN FALSE
                              ELSE current
          [] kind = "int" -> IntOfValue(value)
          [] OTHER -> value

\* the instruction plugin: getSyncData / popNewInputs
ToldPartner(ins) ==
    [ins EXCEPT !.partner_told_terminated = @ \/ ins.terminated]

\* the instruction plugin: applySyncData / applyNewInputs call terminate()
ShouldTerminate(ins, partner) ==
    /\ ins.terminated
    /\ ins.partner_terminated \/ partner
    /\ ins.partner_told_terminated

\* the number of times the body of end() runs when a process that is not
\* the Host ends: close() delivers a close event, closeEvent calls onEnd and
\* with it end() again unless allowaltf4 is off
EndRuns == IF parameters["__main__"].allowaltf4 THEN 2 ELSE 1

(***************************************************************************)
(* continued_init.                                                         *)
(***************************************************************************)
\* the first call of scenarioUpdateTime and every later one: returns the
\* position after it, given the clock it formats
TimeStrAfter(clock) ==
    IF TimeStrNeedsUpdate(FormatTime(clock), scenarioTimeStr)
    THEN FormatTime(clock) ELSE scenarioTimeStr

StartsDispatch(clock, content) ==
    /\ TimeStrNeedsUpdate(FormatTime(clock), scenarioTimeStr)
    /\ TimeIndex(content, FormatTime(clock)) # 0

\* the position once the commands of the current time are done
PcAfterDispatch(stopped) == IF stopped THEN "ended" ELSE "idle"

\* a main loop without the re-entrancy guard
AdmitsAlways(running) == TRUE

\* mainLoop: `if not self.already_a_main_loop_running`
GuardAdmits(running) == ~running

\* mainLoop after `yield self.scheduler()`: the flag is cleared when the
\* call of scheduler returns (continued_init clears it as well when it has
\* started the loop); it stays as it is while the call is suspended
LoopFlagsAfter ==
    IF pc' = "idle"
    THEN already_a_main_loop_running' = FALSE /\ ticks_in_flight' = 0
    ELSE UNCHANGED loop_vars

\* loads the scenario; a process that is not the Host goes on to the first
\* call of scenarioUpdateTime (a Participant has connected before)
LoadScenario ==
    /\ pc = "init"
    /\ LET r == loadScenario(scenario_file)
       IN  IF r.error
           THEN /\ pc' = "aborted"
                /\ UNCHANGED << scenariocontents, loadedTasks, scenarioTimeStr,
                                exec_idx, executed_times, main_loop_started,
                                last_time_microsec >>
           ELSE /\ scenariocontents' = r.content
                /\ loadedTasks' = r.loadedTasks
                /\ IF is_server
                   THEN /\ pc' = "waitconn"
                        /\ UNCHANGED << scenarioTimeStr, exec_idx, executed_times,
                                        main_loop_started, last_time_microsec >>
                   ELSE /\ scenarioTimeStr' = TimeStrAfter(totalElapsedTime_ms)
                        /\ IF StartsDispatch(totalElapsedTime_ms, r.content)
                           THEN /\ pc' = "exec"
                                /\ exec_idx' = 1
                                /\ executed_times' =
                                       Append(executed_times, FormatTime(totalElapsedTime_ms))
                                /\ UNCHANGED << main_loop_started, last_time_microsec >>
                           ELSE /\ pc' = "idle"
                                /\ main_loop_started' = TRUE
                                /\ last_time_microsec' = now
                                /\ UNCHANGED << exec_idx, executed_times >>
    /\ UNCHANGED << role, scenario_file, PLUGINS_TASK, parameters,
                    totalElapsedTime_ms, elapsed_time_ms, now, last_client_sync,
                    am_connected, experiment_pause, experiment_running,
                    termination_message_sent, ended_time, reactor_stopped,
                    instruction, error_counter, host_time, peer_alive,
                    dispatch_log, update_count, end_calls, last_get_time,
                    run_since, ref_clock, ref_TSU, ref_updates >>
    /\ UNCHANGED broker_vars
    /\ LoopFlagsAfter
    /\ UNCHANGED pair_vars
    /\ UNCHANGED << gen_vars, trip_vars >>
    /\ UNCHANGED exchange_vars

\* the Host leaves `while not self.get_connected()` and makes the first call
\* of scenarioUpdateTime
WaitConnected ==
    /\ pc = "waitconn"
    /\ get_connected(am_connected)
    /\ scenarioTimeStr' = TimeStrAfter(totalElapsedTime_ms)
    /\ IF StartsDispatch(totalElapsedTime_ms, scenariocontents)
       THEN /\ pc' = "exec"
            /\ exec_idx' = 1
            /\ executed_times' = Append(executed_times, FormatTime(totalElapsedTime_ms))
            /\ UNCHANGED << main_loop_started, last_time_microsec >>
       ELSE /\ pc' = "idle"
            /\ main_loop_started' = TRUE
            /\ last_time_microsec' = now
            /\ UNCHANGED << exec_idx, executed_times >>
    /\ UNCHANGED << role, scenario_file, scenariocontents, loadedTasks,
                    PLUGINS_TASK, parameters, totalElapsedTime_ms,
                    elapsed_time_ms, now, last_client_sync, am_connected,
                    experiment_pause, experiment_running,
                    termination_message_sent, ended_time, reactor_stopped,
                    instruction, error_counter, host_time, peer_alive,
                    dispatch_log, update_count, end_calls, last_get_time,
                    run_since, ref_clock, ref_TSU, ref_updates >>
    /\ UNCHANGED broker_vars
    /\ LoopFlagsAfter
    /\ UNCHANGED pair_vars
    /\ UNCHANGED << gen_vars, trip_vars >>
    /\ UNCHANGED exchange_vars

(***************************************************************************)
(* scheduler.                                                              *)
(***************************************************************************)
\* the methods of the Task classes that the broker and the scheduler look up
HasMethod(plugin_name, method) ==
    /\ method \in {"getSyncData", "applySyncData", "popNewInputs", "applyNewInputs"}
    /\ plugin_name \in {"instruction", "track"}

\* parameters['network'] of a plugin; the scoreboard has none
PluginNetwork(plugin_name) ==
    CASE plugin_name = "instruction" -> "as_host"
      [] plugin_name = "track" -> parameters["track"].network
      [] OTHER -> "no"

\* track.getSyncData: `self.event_record = []`, the events handed out are
\* kept nowhere else; instruction.getSyncData hands out its flags and keeps them
ClearsRecord(plugin_name) ==
    HasMethod(plugin_name, "getSyncData") /\ plugin_name = "track"

\* Task.is_server
PluginIsServer(plugin_name) ==
    \/ PluginNetwork(plugin_name) = "server"
    \/ PluginNetwork(plugin_name) = "as_host" /\ is_server

\* Task.is_client
PluginIsClient(plugin_name) ==
    \/ PluginNetwork(plugin_name) = "client"
    \/ PluginNetwork(plugin_name) = "as_host" /\ is_client

\* a scheduler that gives a payload to every plugin that has applySyncData
AppliesForAnyRole(plugin_name) == TRUE

\* scheduler / waitEndofPause: `if ...["class"].is_client()` before applySyncData
AppliesFor(plugin_name) == PluginIsClient(plugin_name)

\* a scheduler that delivers every payload as a full update
AlwaysFull(ready) == "full"

\* scheduler: applySyncData(sync_data[plugin_name]) after onUpdate,
\* applySyncData(sync_data[plugin_name], full_update=False) otherwise
UpdateKind(ready) == IF ready THEN "full" ELSE "partial"

\* scheduler: what the update loop does with the payload of plugin_name;
\* keys are the keys of sync_data, ready tells that the plugin is updated
SyncOutcome(plugin_name, keys, pt, ready) ==
    IF ~(is_client /\ plugin_name \in keys /\ IsLoaded(plugin_name)
           /\ Accumulates(pt))
    THEN "none"
    ELSE IF ~HasMethod(plugin_name, "applySyncData")
    THEN IF ready THEN "no_method" ELSE "none"
    ELSE IF ~AppliesFor(plugin_name) THEN "refused"
    ELSE UpdateKind(ready)

\* doNetworkCommunications: the plugins whose popNewInputs is called
PoppedPlugins ==
    {plugin_name \in Plugins :
        HasMethod(plugin_name, "popNewInputs") /\ PluginIsClient(plugin_name)}

\* a scheduler that returns early only during a pause
SkipsOnlyWhenPaused(paused, running) == paused

\* scheduler: `if self.experiment_pause or not self.experiment_running: return`
SkipsRest(paused, running) == paused \/ ~running

\* the part of scheduler after the teardown check.  el is elapsed_time_ms,
\* refel the tick length of the reference run, running and stopped the
\* values of experiment_running and reactor_stopped at that point.  The
\* caller sets the variables this part does not touch.
SchedulerRest(el, refel, running, stopped, keys) ==
    IF SkipsRest(experiment_pause, running)
    THEN /\ pc' = PcAfterDispatch(stopped)
         /\ run_since' = 0
         /\ sync_applied' = [p \in Plugins |-> "none"]
         /\ UNCHANGED << totalElapsedTime_ms, PLUGINS_TASK, update_count,
                         parameters, scenarioTimeStr, exec_idx, executed_times,
                         last_get_time, ref_clock, ref_TSU, ref_updates >>
    ELSE LET new_time == IF is_client
                         THEN ClientTime(totalElapsedTime_ms, host_time, el)
                         ELSE totalElapsedTime_ms + el
             elapsed == IF is_client THEN new_time - totalElapsedTime_ms ELSE el
             refelapsed == IF is_client THEN host_time - totalElapsedTime_ms ELSE refel
         IN  /\ totalElapsedTime_ms' = new_time
             /\ sync_applied' =
                    [p \in Plugins |->
                       SyncOutcome(p, keys, PLUGINS_TASK[p],
                                   ReadyForUpdate(PLUGINS_TASK[p],
                                       PLUGINS_TASK[p].TIME_SINCE_UPDATE, elapsed))]
             /\ last_get_time' = IF is_client THEN host_time ELSE last_get_time
             /\ PLUGINS_TASK' =
                    [p \in Plugins |->
                       IF IsLoaded(p)
                       THEN [PLUGINS_TASK[p] EXCEPT !.TIME_SINCE_UPDATE =
                                AccumulatorAfter(PLUGINS_TASK[p], @, elapsed)]
                       ELSE PLUGINS_TASK[p]]
             /\ update_count' =
                    [p \in Plugins |->
                       IF IsLoaded(p) /\ ReadyForUpdate(PLUGINS_TASK[p],
                              PLUGINS_TASK[p].TIME_SINCE_UPDATE, elapsed)
                       THEN update_count[p] + 1 ELSE update_count[p]]
             /\ ref_clock' = ref_clock + refelapsed
             /\ ref_TSU' =
                    [p \in Plugins |->
                       IF IsLoaded(p)
                       THEN AccumulatorAfter(PLUGINS_TASK[p], ref_TSU[p], refelapsed)
                       ELSE ref_TSU[p]]
             /\ ref_updates' =
                    [p \in Plugins |->
                       IF IsLoaded(p) /\ ReadyForUpdate(PLUGINS_TASK[p], ref_TSU[p], refelapsed)
                       THEN ref_updates[p] + 1 ELSE ref_updates[p]]
             /\ run_since' = 0
             /\ parameters' = [parameters EXCEPT !["__main__"].messagetolog = ""]
             /\ scenarioTimeStr' = TimeStrAfter(new_time)
             /\ IF StartsDispatch(new_time, scenariocontents)
                THEN /\ pc' = "exec"
                     /\ exec_idx' = 1
                     /\ executed_times' = Append(executed_times, FormatTime(new_time))
                ELSE /\ pc' = PcAfterDispatch(stopped)
                     /\ UNCHANGED << exec_idx, executed_times >>

\* the keys of the answer to get_sync_data that a Participant receives
ReceivedKeys(sd) ==
    {plugin_name \in Plugins :
        /\ HasMethod(plugin_name, "getSyncData")
        /\ PluginNetwork(plugin_name) \in {"server", "as_host"}}
      \cup (IF sd.terminate THEN {"terminate"} ELSE {})

\* a Participant that does not look for the termination flag
IgnoresTerminate(sd) == FALSE

\* doNetworkCommunications: `"terminate" in sync_data` calls onEnd
EndsOnTerminate(sd) == sd.terminate

\* doNetworkCommunications of a Participant: the two remote calls
\* an exchange that fetches the sync data before it sends the inputs
SyncBeforeInputs == <<"get_sync_data", "pass_new_input">>

\* doNetworkCommunications: the remote calls of one exchange, in order
ExchangeCalls == <<"pass_new_input", "get_sync_data">>

\* waitEndofPause: what the loop does with the payload of plugin_name
BarrierOutcome(plugin_name, keys) ==
    IF ~(IsLoaded(plugin_name) /\ plugin_name \in NetworkWhilePaused
           /\ is_client /\ plugin_name \in keys)
    THEN "none"
    ELSE IF ~HasMethod(plugin_name, "applySyncData") THEN "no_method"
    ELSE IF ~AppliesFor(plugin_name) THEN "refused"
    ELSE "full"

\* one call of scheduler by the main loop, up to its first suspension.  A
\* Participant exchanges with the Host first: sd is the answer to
\* get_sync_data as far as the model reads it.
Tick ==
    /\ pc = "idle"
    /\ GuardAdmits(already_a_main_loop_running)
    /\ now - last_time_microsec >= MAIN_SCHEDULER_INTERVAL
    /\ last_time_microsec' = now
    /\ \E sd \in [terminated : BOOLEAN, terminate : BOOLEAN] :
         /\ is_client \/ (~sd.terminated /\ ~sd.terminate)
         /\ instruction' = IF is_client THEN ToldPartner(instruction) ELSE instruction
         /\ sync_data' = IF is_client THEN ReceivedKeys(sd) ELSE sync_data
         /\ IF is_client /\ EndsOnTerminate(sd)
            THEN \* doNetworkCommunications: onEnd(), end(), sys.exit()
                 /\ pc' = "exited"
                 /\ experiment_running' = FALSE
                 /\ end_calls' = end_calls + EndRuns
                 /\ UNCHANGED << elapsed_time_ms, totalElapsedTime_ms, PLUGINS_TASK,
                                 update_count, parameters, scenarioTimeStr, exec_idx,
                                 executed_times, last_get_time, run_since, ref_clock,
                                 ref_TSU, ref_updates >>
                 /\ sync_applied' = [p \in Plugins |-> "none"]
                 /\ rpc_calls' = ExchangeCalls
            ELSE IF TeardownCondition
            THEN /\ pc' = "teardown_sleep"
                 /\ elapsed_time_ms' = now - last_time_microsec
                 /\ sync_applied' = [p \in Plugins |-> "none"]
                 /\ rpc_calls' = <<>>
                 /\ UNCHANGED << experiment_running, end_calls, totalElapsedTime_ms,
                                 PLUGINS_TASK, update_count, parameters,
                                 scenarioTimeStr, exec_idx, executed_times,
                                 last_get_time, run_since, ref_clock, ref_TSU,
                                 ref_updates >>
            ELSE /\ SchedulerRest(now - last_time_microsec, run_since,
                                  experiment_running, reactor_stopped,
                                  IF is_client THEN ReceivedKeys(sd) ELSE {})
                 /\ rpc_calls' =
                        IF ~is_client THEN <<>>
                        ELSE IF SkipsRest(experiment_pause, experiment_running)
                        THEN ExchangeCalls
                        ELSE ExchangeCalls \o <<"get_time">>
                 /\ UNCHANGED << elapsed_time_ms, experiment_running, end_calls >>
    /\ UNCHANGED << role, scenario_file, scenariocontents, loadedTasks,
                    main_loop_started, now, last_client_sync, am_connected,
                    experiment_pause, termination_message_sent, ended_time,
                    reactor_stopped, error_counter, host_time, peer_alive,
                    dispatch_log >>
    /\ UNCHANGED << input_log, misrouted_seen >>
    /\ already_a_main_loop_running' = (pc' # "idle")
    /\ ticks_in_flight' = IF pc' # "idle" THEN 1 ELSE 0
    /\ popped' = IF is_client THEN PoppedPlugins ELSE {}
    /\ UNCHANGED pair_vars
    /\ UNCHANGED << gen_vars, trip_vars >>

\* the Host wakes from the sleep before teardown, runs end() and the rest of
\* scheduler; closeEvent calls onEnd unless allowaltf4 is off
TeardownWake ==
    /\ pc = "teardown_sleep"
    /\ end_calls' = end_calls + 1
    /\ reactor_stopped' = TRUE
    /\ experiment_running' =
           IF parameters["__main__"].allowaltf4 THEN FALSE ELSE experiment_running
    /\ ended_time' = IF parameters["__main__"].allowaltf4 THEN now ELSE ended_time
    /\ elapsed_time_ms' = 0
    /\ SchedulerRest(elapsed_time_ms, run_since, experiment_running', TRUE, {})
    /\ UNCHANGED << role, scenario_file, scenariocontents, loadedTasks,
                    main_loop_started, last_time_microsec, now, last_client_sync,
                    am_connected, experiment_pause, termination_message_sent,
                    instruction, error_counter, host_time, peer_alive,
                    dispatch_log >>
    /\ UNCHANGED broker_vars
    /\ LoopFlagsAfter
    /\ UNCHANGED pair_vars
    /\ UNCHANGED << gen_vars, trip_vars >>
    /\ UNCHANGED << rpc_calls, popped >>

(***************************************************************************)
(* executeScenario and waitEndofPause.                                     *)
(***************************************************************************)
CurrentQueue == ExecOrder(scenariocontents, scenarioTimeStr)

LogEntry(cmd) == [time |-> scenarioTimeStr, task |-> cmd.task,
                  command |-> cmd.command, priority |-> cmd.priority,
                  line |-> cmd.line]

\* goes on to the command after exec_idx, or returns from executeScenario;
\* returning to continued_init starts the main loop
Advance ==
    IF exec_idx < Len(CurrentQueue)
    THEN /\ pc' = "exec"
         /\ exec_idx' = exec_idx + 1
         /\ UNCHANGED main_loop_started
    ELSE /\ pc' = PcAfterDispatch(reactor_stopped)
         /\ exec_idx' = 0
         /\ main_loop_started' = TRUE

\* last_time_microsec after leaving waitEndofPause (or after returning to
\* continued_init, which sets it as well)
AdvanceLastTime ==
    last_time_microsec' =
        IF exec_idx >= Len(CurrentQueue) /\ ~main_loop_started
        THEN now
        ELSE LastTimeAfterPause(now, last_time_microsec)

\* a lifecycle command of the main script: only `end` has no branch that
\* looks "__main__" up in PLUGINS_TASK
MainLifecycle(cmd) ==
    IF cmd.command[1] # "end"
    THEN \* KeyError: the coroutine fails
         /\ pc' = "crashed"
         /\ UNCHANGED << exec_idx, main_loop_started, last_time_microsec,
                         experiment_running, ended_time, end_calls, dispatch_log >>
    ELSE /\ dispatch_log' = Append(dispatch_log, LogEntry(cmd))
         /\ experiment_running' = FALSE
         /\ IF ~is_server
            THEN \* onEnd: end(), sys.exit()
                 /\ pc' = "exited"
                 /\ end_calls' = end_calls + EndRuns
                 /\ UNCHANGED << exec_idx, main_loop_started, last_time_microsec,
                                 ended_time >>
            ELSE /\ ended_time' = now
                 /\ Advance
                 /\ AdvanceLastTime
                 /\ UNCHANGED end_calls

\* a dispatcher that goes on to the next command whatever the session does
NeverWaits(paused) == FALSE

\* waitEndofPause: `while self.experiment_pause`
MustWait(paused) == paused

\* a lifecycle command of a plugin, then waitEndofPause
PluginLifecycle(cmd) ==
    LET task == cmd.task
        verb == cmd.command[1]
        pausing == task = "instruction" /\ verb = "start"
        PT1 == [PLUGINS_TASK EXCEPT ![task] = LifecycleState(@, verb)]
    IN  /\ dispatch_log' = Append(dispatch_log, LogEntry(cmd))
        /\ PLUGINS_TASK' = IF pausing THEN PausedTasks(PT1) ELSE PT1
        /\ experiment_pause' = (experiment_pause \/ pausing)
        /\ instruction' = IF pausing
                          THEN [terminated |-> FALSE, partner_terminated |-> FALSE,
                                partner_told_terminated |-> FALSE, active |-> TRUE]
                          ELSE instruction
        /\ update_count' = IF verb = "update"
                           THEN [update_count EXCEPT ![task] = @ + 1]
                           ELSE update_count
        /\ IF MustWait(experiment_pause')
           THEN /\ pc' = "barrier"
                /\ UNCHANGED << exec_idx, main_loop_started, last_time_microsec >>
           ELSE /\ Advance
                /\ AdvanceLastTime

\* a parameter command: setParameterVariable
ParameterCommand(cmd) ==
    LET task == cmd.task
        variable == cmd.command[1]
        value == CoercedValue(task, variable, cmd.command[2],
                              parameters[task][variable])
    IN  IF ParameterKinds(task)[variable] = "int" /\ value = -1
        THEN \* ValueError: the coroutine fails
             /\ pc' = "crashed"
             /\ UNCHANGED << parameters, PLUGINS_TASK, dispatch_log, exec_idx,
                             main_loop_started, last_time_microsec >>
        ELSE /\ parameters' = [parameters EXCEPT ![task][variable] = value]
             /\ PLUGINS_TASK' =
                    IF variable = "taskupdatetime"
                       /\ ParameterKinds(task)[variable] = "int"
                    THEN [PLUGINS_TASK EXCEPT ![task].UPDATE_TIME = value]
                    ELSE PLUGINS_TASK
             /\ dispatch_log' = Append(dispatch_log, LogEntry(cmd))
             /\ Advance
             /\ last_time_microsec' =
                    IF exec_idx >= Len(CurrentQueue) /\ ~main_loop_started
                    THEN now ELSE last_time_microsec

\* executes the command at exec_idx
ExecCommand ==
    /\ pc = "exec"
    /\ LET cmd == CurrentQueue[exec_idx]
       IN  IF Len(cmd.command) = 1
           THEN IF cmd.task = "__main__"
                THEN /\ MainLifecycle(cmd)
                     /\ UNCHANGED << PLUGINS_TASK, parameters, experiment_pause,
                                     instruction, update_count >>
                ELSE /\ PluginLifecycle(cmd)
                     /\ UNCHANGED << parameters, experiment_running, ended_time,
                                     end_calls >>
           ELSE /\ ParameterCommand(cmd)
                /\ UNCHANGED << experiment_pause, experiment_running, ended_time,
                                end_calls, instruction, update_count >>
    /\ UNCHANGED << role, scenario_file, scenariocontents, loadedTasks,
                    scenarioTimeStr, totalElapsedTime_ms, elapsed_time_ms, now,
                    last_client_sync, am_connected, termination_message_sent,
                    reactor_stopped, error_counter, host_time, peer_alive,
                    executed_times, last_get_time, run_since, ref_clock,
                    ref_TSU, ref_updates >>
    /\ UNCHANGED broker_vars
    /\ LoopFlagsAfter
    /\ UNCHANGED pair_vars
    /\ UNCHANGED << gen_vars, trip_vars >>
    /\ UNCHANGED exchange_vars

\* waitEndofPause: the session is no longer paused, the loop is left
waitEndofPause ==
    /\ pc = "barrier"
    /\ ~experiment_pause
    /\ Advance
    /\ AdvanceLastTime
    /\ UNCHANGED << role, scenario_file, scenariocontents, loadedTasks,
                    PLUGINS_TASK, parameters, scenarioTimeStr,
                    totalElapsedTime_ms, elapsed_time_ms, now, last_client_sync,
                    am_connected, experiment_pause, experiment_running,
                    termination_message_sent, ended_time, reactor_stopped,
                    instruction, error_counter, host_time, peer_alive,
                    dispatch_log, executed_times, update_count, end_calls,
                    last_get_time, run_since, ref_clock, ref_TSU, ref_updates >>
    /\ UNCHANGED broker_vars
    /\ LoopFlagsAfter
    /\ UNCHANGED pair_vars
    /\ UNCHANGED << gen_vars, trip_vars >>
    /\ UNCHANGED exchange_vars

\* the instruction plugin's terminate(): Main.onResume
TerminatedInstruction(ins) == [ins EXCEPT !.active = FALSE]

\* one iteration of the loop of waitEndofPause on a Participant:
\* doNetworkCommunications, then applySyncData of the plugins that network
\* while paused
waitEndofPauseExchange ==
    /\ pc = "barrier"
    /\ experiment_pause
    /\ is_client
    /\ \E sd \in [terminated : BOOLEAN, terminate : BOOLEAN] :
         LET ins1 == ToldPartner(instruction)
             resumes == /\ IsLoaded("instruction")
                        /\ ShouldTerminate(ins1, sd.terminated)
                        /\ ins1.active
             ins2 == [ins1 EXCEPT !.partner_terminated = sd.terminated]
         IN  IF EndsOnTerminate(sd)
             THEN /\ pc' = "exited"
                  /\ sync_data' = ReceivedKeys(sd)
                  /\ experiment_running' = FALSE
                  /\ end_calls' = end_calls + EndRuns
                  /\ instruction' = ins1
                  /\ UNCHANGED << experiment_pause, PLUGINS_TASK >>
             ELSE /\ sync_data' = ReceivedKeys(sd)
                  /\ instruction' = IF ~IsLoaded("instruction") THEN ins1
                                    ELSE IF resumes THEN TerminatedInstruction(ins2)
                                    ELSE ins2
                  /\ experiment_pause' = IF resumes THEN FALSE ELSE experiment_pause
                  /\ PLUGINS_TASK' = IF resumes THEN ResumedTasks(PLUGINS_TASK)
                                     ELSE PLUGINS_TASK
                  /\ UNCHANGED << pc, experiment_running, end_calls >>
    /\ UNCHANGED << role, scenario_file, scenariocontents, loadedTasks,
                    main_loop_started, exec_idx, parameters, scenarioTimeStr,
                    totalElapsedTime_ms, last_time_microsec, elapsed_time_ms,
                    now, last_client_sync, am_connected,
                    termination_message_sent, ended_time, reactor_stopped,
                    error_counter, host_time, peer_alive, dispatch_log,
                    executed_times, update_count, last_get_time, run_since,
                    ref_clock, ref_TSU, ref_updates >>
    /\ UNCHANGED << input_log, misrouted_seen >>
    /\ LoopFlagsAfter
    /\ UNCHANGED pair_vars
    /\ UNCHANGED << gen_vars, trip_vars >>
    /\ rpc_calls' = ExchangeCalls
    /\ popped' = PoppedPlugins
    /\ sync_applied' = [p \in Plugins |->
                          IF pc' = "exited" THEN "none"
                          ELSE BarrierOutcome(p, sync_data')]

(***************************************************************************)
(* The remote calls a Host serves (server.py).  The reactor serves them    *)
(* whenever the process is suspended.                                      *)
(***************************************************************************)
Suspended == pc \in {"waitconn", "idle", "barrier", "teardown_sleep"}

Serving == is_server /\ peer_alive /\ ~reactor_stopped /\ Suspended

\* a timestamp that is taken once, at the first contact
FirstContact(previous, current) == IF previous = 0 THEN current ELSE previous

\* remote_confirm_connected and remote_get_sync_data: last_client_sync
ContactTime(previous, current) == current

remote_confirm_connected ==
    /\ Serving
    /\ am_connected \/ now - StartTime <= MaxConnectDelay
    /\ am_connected' = TRUE
    /\ last_client_sync' = ContactTime(last_client_sync, now)
    /\ UNCHANGED << role, scenario_file, scenariocontents, loadedTasks, pc,
                    main_loop_started, exec_idx, PLUGINS_TASK, parameters,
                    scenarioTimeStr, totalElapsedTime_ms, last_time_microsec,
                    elapsed_time_ms, now, experiment_pause, experiment_running,
                    termination_message_sent, ended_time, reactor_stopped,
                    instruction, error_counter, host_time, peer_alive,
                    dispatch_log, executed_times, update_count, end_calls,
                    last_get_time, run_since, ref_clock, ref_TSU, ref_updates >>
    /\ UNCHANGED broker_vars
    /\ UNCHANGED loop_vars
    /\ UNCHANGED pair_vars
    /\ UNCHANGED << gen_vars, trip_vars >>
    /\ UNCHANGED exchange_vars

\* an aggregation that leaves out the test of is_server()
SyncPluginsOfAnyKind ==
    {plugin_name \in Plugins : HasMethod(plugin_name, "getSyncData")}

\* remote_get_sync_data: the plugins whose getSyncData is called
SyncPlugins ==
    {plugin_name \in Plugins :
        HasMethod(plugin_name, "getSyncData") /\ PluginIsServer(plugin_name)}

\* an answer that never carries the termination flag
SyncKeysWithoutTerminate(running) == SyncPlugins

\* remote_get_sync_data: the keys of the answer
SyncKeys(running) ==
    SyncPlugins \cup (IF ~running THEN {"terminate"} ELSE {})

remote_get_sync_data ==
    /\ Serving
    /\ am_connected
    /\ instruction' = IF "instruction" \in SyncPlugins
                      THEN ToldPartner(instruction) ELSE instruction
    /\ sync_data' = SyncKeys(experiment_running)
    /\ termination_message_sent' = (termination_message_sent \/ ~experiment_running)
    /\ last_client_sync' = ContactTime(last_client_sync, now)
    /\ UNCHANGED << role, scenario_file, scenariocontents, loadedTasks, pc,
                    main_loop_started, exec_idx, PLUGINS_TASK, parameters,
                    scenarioTimeStr, totalElapsedTime_ms, last_time_microsec,
                    elapsed_time_ms, now, am_connected, experiment_pause,
                    experiment_running, ended_time, reactor_stopped,
                    error_counter, host_time, peer_alive, dispatch_log,
                    executed_times, update_count, end_calls, last_get_time,
                    run_since, ref_clock, ref_TSU, ref_updates,
                    input_log, misrouted_seen >>
    /\ UNCHANGED loop_vars
    /\ UNCHANGED pair_vars
    /\ UNCHANGED << gen_vars, trip_vars >>
    /\ UNCHANGED exchange_vars

\* a handler that applies the input of every plugin that has applyNewInputs
EntryOutcomeForAnyRole(plugin_name, counter) ==
    IF plugin_name \in Plugins
    THEN IF HasMethod(plugin_name, "applyNewInputs") THEN "applied"
         ELSE "no_method"
    ELSE "unknown"

\* remote_pass_new_input: what is done with the entry of one plugin, given
\* error_counter: applyNewInputs, error_counter += 1, or a critical message
EntryOutcome(plugin_name, counter) ==
    IF plugin_name \in Plugins
    THEN IF HasMethod(plugin_name, "applyNewInputs")
         THEN IF PluginIsServer(plugin_name) THEN "applied"
              ELSE IF counter > 10 THEN "warned"
              ELSE "counted"
         ELSE "no_method"
    ELSE "unknown"

CounterAfter(plugin_name, counter) ==
    IF EntryOutcome(plugin_name, counter) = "counted" THEN counter + 1 ELSE counter

\* the loop over new_input.items()
RECURSIVE CounterAfterAll(_, _)
CounterAfterAll(new_input, counter) ==
    IF Len(new_input) = 0 THEN counter
    ELSE CounterAfterAll(Tail(new_input), CounterAfter(new_input[1], counter))

RECURSIVE InputLog(_, _)
InputLog(new_input, counter) ==
    IF Len(new_input) = 0 THEN <<>>
    ELSE << [plugin |-> new_input[1],
             outcome |-> EntryOutcome(new_input[1], counter)] >>
         \o InputLog(Tail(new_input), CounterAfter(new_input[1], counter))

\* a reset that happens only when the call had nothing to complain about
CounterResetIfNoError(counter_before, counter_after, log) ==
    IF \A i \in 1..Len(log) : log[i].outcome = "applied" THEN 0 ELSE counter_after

\* the last statement: `if counter_before == self.error_counter`
CounterReset(counter_before, counter_after, log) ==
    IF counter_before = counter_after THEN 0 ELSE counter_after

\* an entry for a plugin that has applyNewInputs and is not Host-authoritative
Misrouted(plugin_name) ==
    /\ plugin_name \in Plugins
    /\ HasMethod(plugin_name, "applyNewInputs")
    /\ ~PluginIsServer(plugin_name)

MisroutedIn(new_input) ==
    Cardinality({i \in 1..Len(new_input) : Misrouted(new_input[i])})

\* an entry that is applied: neither malformed nor misrouted
WellFormed(plugin_name) ==
    /\ plugin_name \in Plugins
    /\ HasMethod(plugin_name, "applyNewInputs")
    /\ PluginIsServer(plugin_name)

\* remote_pass_new_input for the dictionary new_input, given as the
\* sequence of its keys; terminated is the data of the instruction plugin
pass_new_input(new_input, terminated) ==
    /\ input_log' = InputLog(new_input, error_counter)
    /\ error_counter' = CounterReset(error_counter,
                                     CounterAfterAll(new_input, error_counter),
                                     input_log')
    /\ misrouted_seen' =
           IF \A i \in 1..Len(new_input) : WellFormed(new_input[i]) THEN 0
           ELSE misrouted_seen + MisroutedIn(new_input)
    /\ IF \E i \in 1..Len(input_log') :
              /\ input_log'[i].plugin = "instruction"
              /\ input_log'[i].outcome = "applied"
       THEN LET resumes == ShouldTerminate(instruction, terminated) /\ instruction.active
                ins2 == [instruction EXCEPT !.partner_terminated = terminated]
            IN  /\ instruction' = IF resumes THEN TerminatedInstruction(ins2) ELSE ins2
                /\ experiment_pause' = IF resumes THEN FALSE ELSE experiment_pause
                /\ PLUGINS_TASK' = IF resumes THEN ResumedTasks(PLUGINS_TASK)
                                   ELSE PLUGINS_TASK
       ELSE UNCHANGED << instruction, experiment_pause, PLUGINS_TASK >>
    /\ UNCHANGED << role, scenario_file, scenariocontents, loadedTasks, pc,
                    main_loop_started, exec_idx, parameters, scenarioTimeStr,
                    totalElapsedTime_ms, last_time_microsec, elapsed_time_ms,
                    now, last_client_sync, am_connected, experiment_running,
                    termination_message_sent, ended_time, reactor_stopped,
                    host_time, peer_alive, dispatch_log, executed_times,
                    update_count, end_calls, last_get_time, run_since,
                    ref_clock, ref_TSU, ref_updates, sync_data >>
    /\ UNCHANGED loop_vars
    /\ UNCHANGED pair_vars
    /\ UNCHANGED << gen_vars, trip_vars >>
    /\ UNCHANGED exchange_vars

\* the call of a Participant that runs this program: doNetworkCommunications
\* sends the input of the plugins whose is_client() is true
remote_pass_new_input ==
    /\ Serving
    /\ am_connected
    /\ \E terminated \in BOOLEAN : pass_new_input(<<"instruction">>, terminated)

\* the names a peer may use as keys of new_input
InputNames == Plugins \cup {"radar"}

\* dictionaries of one or two entries
NewInputs ==
    {<<n>> : n \in InputNames}
        \cup {p \in InputNames \X InputNames : p[1] # p[2]}

\* the call of any peer
remote_pass_any_input ==
    /\ Serving
    /\ am_connected
    /\ misrouted_seen < MaxMisrouted
    /\ \E new_input \in NewInputs, terminated \in BOOLEAN :
           pass_new_input(new_input, terminated)

(***************************************************************************)
(* The user and the environment.                                           *)
(***************************************************************************)
\* Qt events are processed between two ticks and in the loop of waitEndofPause
ProcessesEvents == pc \in {"idle", "barrier"} /\ ~reactor_stopped

\* the Continue button of the instruction screen: terminate_event
UserTerminates ==
    /\ ProcessesEvents
    /\ instruction.active
    /\ ~instruction.terminated
    /\ IF ~(is_client \/ is_server)
       THEN /\ instruction' = TerminatedInstruction(
                                  [instruction EXCEPT !.terminated = TRUE])
            /\ experiment_pause' = FALSE
            /\ PLUGINS_TASK' = ResumedTasks(PLUGINS_TASK)
       ELSE /\ instruction' = [instruction EXCEPT !.terminated = TRUE]
            /\ UNCHANGED << experiment_pause, PLUGINS_TASK >>
    /\ UNCHANGED << role, scenario_file, scenariocontents, loadedTasks, pc,
                    main_loop_started, exec_idx, parameters, scenarioTimeStr,
                    totalElapsedTime_ms, last_time_microsec, elapsed_time_ms,
                    now, last_client_sync, am_connected, experiment_running,
                    termination_message_sent, ended_time, reactor_stopped,
                    error_counter, host_time, peer_alive, dispatch_log,
                    executed_times, update_count, end_calls, last_get_time,
                    run_since, ref_clock, ref_TSU, ref_updates >>
    /\ UNCHANGED broker_vars
    /\ UNCHANGED loop_vars
    /\ UNCHANGED pair_vars
    /\ UNCHANGED << gen_vars, trip_vars >>
    /\ UNCHANGED exchange_vars

\* eventFilter: the release of the escape key calls onEnd
KeyEscape ==
    /\ ProcessesEvents
    /\ experiment_running
    /\ parameters["__main__"].allowescape
    /\ experiment_running' = FALSE
    /\ IF ~is_server
       THEN /\ pc' = "exited"
            /\ end_calls' = end_calls + EndRuns
            /\ UNCHANGED ended_time
       ELSE /\ ended_time' = now
            /\ UNCHANGED << pc, end_calls >>
    /\ UNCHANGED << role, scenario_file, scenariocontents, loadedTasks,
                    main_loop_started, exec_idx, PLUGINS_TASK, parameters,
                    scenarioTimeStr, totalElapsedTime_ms, last_time_microsec,
                    elapsed_time_ms, now, last_client_sync, am_connected,
                    experiment_pause, termination_message_sent,
                    reactor_stopped, instruction, error_counter, host_time,
                    peer_alive, dispatch_log, executed_times, update_count,
                    last_get_time, run_since, ref_clock, ref_TSU, ref_updates >>
    /\ UNCHANGED broker_vars
    /\ LoopFlagsAfter
    /\ UNCHANGED pair_vars
    /\ UNCHANGED << gen_vars, trip_vars >>
    /\ UNCHANGED exchange_vars

\* wall time passes while the process is suspended: one tick length between
\* two ticks, any number of them in the waits.  The sleeps of the two polling
\* loops are 1 ms and 10 ms: time that passes between the event that ends
\* the loop and the end of that sleep is below the resolution of the model.
TimePassesUntil(limit) ==
    /\ Suspended
    /\ pc = "barrier" => experiment_pause
    /\ pc = "waitconn" => ~am_connected
    /\ pc = "idle" => now = last_time_microsec
    /\ \E d \in TickLengths :
         /\ now + d <= limit
         /\ now' = now + d
         /\ run_since' = IF pc = "idle" THEN run_since + d ELSE run_since
    /\ UNCHANGED << role, scenario_file, scenariocontents, loadedTasks, pc,
                    main_loop_started, exec_idx, PLUGINS_TASK, parameters,
                    scenarioTimeStr, totalElapsedTime_ms, last_time_microsec,
                    elapsed_time_ms, last_client_sync, am_connected,
                    experiment_pause, experiment_running,
                    termination_message_sent, ended_time, reactor_stopped,
                    instruction, error_counter, host_time, peer_alive,
                    dispatch_log, executed_times, update_count, end_calls,
                    last_get_time, ref_clock, ref_TSU, ref_updates >>
    /\ UNCHANGED broker_vars
    /\ UNCHANGED loop_vars
    /\ UNCHANGED pair_vars
    /\ UNCHANGED << gen_vars, trip_vars >>
    /\ UNCHANGED exchange_vars

TimePasses == TimePassesUntil(StartTime + MaxNow)

\* the same, up to the horizon of the specification of the grace period
TimePassesLong == TimePassesUntil(StartTime + GraceHorizon)

\* the virtual clock of the Host a Participant is connected to advances
HostTimeAdvances ==
    /\ is_client
    /\ pc \in {"idle", "barrier"}
    /\ \E d \in TickLengths :
         /\ host_time + d <= MaxHostTime
         /\ host_time' = host_time + d
    /\ UNCHANGED << role, scenario_file, scenariocontents, loadedTasks, pc,
                    main_loop_started, exec_idx, PLUGINS_TASK, parameters,
                    scenarioTimeStr, totalElapsedTime_ms, last_time_microsec,
                    elapsed_time_ms, now, last_client_sync, am_connected,
                    experiment_pause, experiment_running,
                    termination_message_sent, ended_time, reactor_stopped,
                    instruction, error_counter, peer_alive, dispatch_log,
                    executed_times, update_count, end_calls, last_get_time,
                    run_since, ref_clock, ref_TSU, ref_updates >>
    /\ UNCHANGED broker_vars
    /\ UNCHANGED loop_vars
    /\ UNCHANGED pair_vars
    /\ UNCHANGED << gen_vars, trip_vars >>
    /\ UNCHANGED exchange_vars

\* the Participant stops issuing remote calls for good
PeerLost ==
    /\ is_server
    /\ peer_alive
    /\ Suspended
    /\ peer_alive' = FALSE
    /\ UNCHANGED << role, scenario_file, scenariocontents, loadedTasks, pc,
                    main_loop_started, exec_idx, PLUGINS_TASK, parameters,
                    scenarioTimeStr, totalElapsedTime_ms, last_time_microsec,
                    elapsed_time_ms, now, last_client_sync, am_connected,
                    experiment_pause, experiment_running,
                    termination_message_sent, ended_time, reactor_stopped,
                    instruction, error_counter, host_time, dispatch_log,
                    executed_times, update_count, end_calls, last_get_time,
                    run_since, ref_clock, ref_TSU, ref_updates >>
    /\ UNCHANGED broker_vars
    /\ UNCHANGED loop_vars
    /\ UNCHANGED pair_vars
    /\ UNCHANGED << gen_vars, trip_vars >>
    /\ UNCHANGED exchange_vars

\* the timer of main_loop_caller calls mainLoop while a call of scheduler
\* is suspended in the pause barrier or in the sleep before the teardown:
\* the guard decides whether a second call of scheduler is started
mainLoopInFlight ==
    /\ main_loop_started
    /\ ~reactor_stopped
    /\ pc \in {"barrier", "teardown_sleep"}
    /\ IF GuardAdmits(already_a_main_loop_running)
       THEN /\ ticks_in_flight < 2
            /\ already_a_main_loop_running' = TRUE
            /\ ticks_in_flight' = ticks_in_flight + 1
       ELSE UNCHANGED loop_vars
    /\ UNCHANGED << role, scenario_file, scenariocontents, loadedTasks, pc,
                    main_loop_started, exec_idx, PLUGINS_TASK, parameters,
                    scenarioTimeStr, totalElapsedTime_ms, last_time_microsec,
                    elapsed_time_ms, now, last_client_sync, am_connected,
                    experiment_pause, experiment_running,
                    termination_message_sent, ended_time, reactor_stopped,
                    instruction, error_counter, host_time, peer_alive,
                    dispatch_log, executed_times, update_count, end_calls,
                    last_get_time, run_since, ref_clock, ref_TSU, ref_updates >>
    /\ UNCHANGED broker_vars
    /\ UNCHANGED pair_vars
    /\ UNCHANGED << gen_vars, trip_vars >>
    /\ UNCHANGED exchange_vars

Next ==
    \/ LoadScenario
    \/ WaitConnected
    \/ Tick
    \/ TeardownWake
    \/ ExecCommand
    \/ waitEndofPause
    \/ waitEndofPauseExchange
    \/ remote_confirm_connected
    \/ remote_get_sync_data
    \/ remote_pass_new_input
    \/ UserTerminates
    \/ KeyEscape
    \/ TimePasses
    \/ HostTimeAdvances
    \/ mainLoopInFlight
    \/ PeerLost

Spec == Init /\ [][Next]_vars

\* a Host whose peer may send any dictionary to remote_pass_new_input: the
\* calls served from the start of the Host up to its first tick
BrokerInit == Init /\ is_server /\ scenario_file = ScenarioBasic

BrokerNext ==
    \/ LoadScenario
    \/ WaitConnected
    \/ ExecCommand
    \/ remote_confirm_connected
    \/ remote_get_sync_data
    \/ remote_pass_any_input

BrokerSpec == BrokerInit /\ [][BrokerNext]_vars

\* a Host that is followed beyond the grace period: its Participant
\* connects and then only repeats confirm_connected
GraceInit == Init /\ is_server /\ scenario_file = ScenarioBasic

GraceNext ==
    \/ LoadScenario
    \/ WaitConnected
    \/ Tick
    \/ TeardownWake
    \/ ExecCommand
    \/ remote_confirm_connected
    \/ KeyEscape
    \/ TimePassesLong

GraceSpec == GraceInit /\ [][GraceNext]_vars

\* TIME fields given to getCommand: the two accepted forms, fields of a
\* wrong length, suffixes that are not numeric, and fields of seven
\* characters that are not of the form H:MM:SS
TimeFields ==
    { T1, T1 \o P5, T1 \o P10,
      <<"0", ":", "0", "0", ":", "1">>,
      <<"0", ":", "0", "0", ":", "0", "1", "1">>,
      T1 \o <<"-">>, T1 \o <<"-", "x">>, T1 \o P5 \o P5,
      <<"0", ":", "0", "0", ":", "1">> \o P5,
      <<"0", ":", "0", "0", "-", "0", "1">>,
      <<"0", "0", "0", "0", "0", "0", "1">>,
      <<"0", "x", "0", "0", "x", "0", "1">> }

\* a scenario file whose second line carries the TIME field
TimeFile(time) ==
    << Line(T0, <<"track", "start">>),
       Line(time, <<"track", "hide">>),
       Line(T2, <<"end">>) >>

TimeFiles == {TimeFile(time) : time \in TimeFields}

\* a local process started on each of these files
CompileInit == InitOn(TimeFiles) /\ role = "none"

CompileNext ==
    \/ LoadScenario
    \/ Tick
    \/ ExecCommand
    \/ TimePasses

CompileSpec == CompileInit /\ [][CompileNext]_vars

\* processes started on the scenarios with a networked tracking task
SyncInit ==
    /\ InitOn({ScenarioNetTrack, ScenarioServerTrack})
    /\ scenario_file = ScenarioServerTrack => is_client

SyncSpec == SyncInit /\ [][Next]_vars

(***************************************************************************)
(* Properties.                                                             *)
(***************************************************************************)
LogIndexes == 1..Len(dispatch_log)

SameTier(i, j) ==
    /\ dispatch_log[i].time = dispatch_log[j].time
    /\ dispatch_log[i].priority = dispatch_log[j].priority

\* allowance for the tick in flight and the sleep before teardown, in ms
Epsilon == 1000

\* C1: the commands of one TimeKey are executed in descending priority
\* order: no command runs after a command of lower priority at that TimeKey.
C1_PriorityDescending ==
    \A i, j \in LogIndexes :
        (i < j /\ dispatch_log[i].time = dispatch_log[j].time)
            => dispatch_log[i].priority >= dispatch_log[j].priority

\* a command has run before one that precedes it in the file, because its
\* priority is higher
C1_Witness ==
    \E i, j \in LogIndexes :
        /\ i < j
        /\ dispatch_log[i].time = dispatch_log[j].time
        /\ dispatch_log[i].priority > dispatch_log[j].priority
        /\ dispatch_log[i].line > dispatch_log[j].line
        /\ dispatch_log[i].task # dispatch_log[j].task

\* C2 as stated: within one (TimeKey, priority) tier the commands are
\* executed in the order of their lines, whatever their tasks.
C2_FileOrder ==
    \A i, j \in LogIndexes :
        (i < j /\ SameTier(i, j)) => dispatch_log[i].line < dispatch_log[j].line

\* the number of the first line of the file that schedules a command of the
\* task at the time (at any priority)
SchedulesAt(n, time, task) ==
    /\ getCommand(scenario_file[n + 1]).time = time
    /\ getCommand(scenario_file[n + 1]).task = task

FirstLineAt(time, task) ==
    CHOOSE n \in 0..(Len(scenario_file) - 1) :
        /\ SchedulesAt(n, time, task)
        /\ \A m \in 0..(n - 1) : ~SchedulesAt(m, time, task)

\* C2 amended: within one tier the commands are executed task by task, the
\* tasks in the order of their first line at that TimeKey, and the commands
\* of one task in the order of their lines.
C2_TaskThenFileOrder ==
    \A i, j \in LogIndexes :
        (i < j /\ SameTier(i, j)) =>
            IF dispatch_log[i].task = dispatch_log[j].task
            THEN dispatch_log[i].line < dispatch_log[j].line
            ELSE FirstLineAt(dispatch_log[i].time, dispatch_log[i].task)
                     < FirstLineAt(dispatch_log[j].time, dispatch_log[j].task)

\* two tasks with interleaved lines in one tier have been executed: a
\* command of the first task after the other task's line in the file, and
\* before it in the execution
C2_Witness ==
    \E i, j, k \in LogIndexes :
        /\ i < j /\ j < k
        /\ SameTier(i, j) /\ SameTier(j, k)
        /\ dispatch_log[i].task = dispatch_log[j].task
        /\ dispatch_log[j].task # dispatch_log[k].task
        /\ dispatch_log[i].line < dispatch_log[k].line
        /\ dispatch_log[k].line < dispatch_log[j].line

\* C3: the commands of a TimeKey are dispatched at most once: executeScenario
\* finds no TimeKey twice and no command is executed twice.
C3_AtMostOnce ==
    /\ \A i, j \in 1..Len(executed_times) :
           i < j => executed_times[i] # executed_times[j]
    /\ \A i, j \in LogIndexes :
           i < j => dispatch_log[i].line # dispatch_log[j].line

\* a tick has advanced the clock within the second of the TimeKey
\* dispatched last, and nothing was dispatched again
C3_Witness ==
    /\ pc = "idle"
    /\ Len(executed_times) >= 2
    /\ executed_times[Len(executed_times)] = scenarioTimeStr
    /\ FormatTime(totalElapsedTime_ms) = scenarioTimeStr
    /\ totalElapsedTime_ms % 1000 >= 700

TimesOfTimeline == {scenariocontents[i].time : i \in 1..Len(scenariocontents)}

ReachedOrPassed(time) ==
    \/ time = FormatTime(totalElapsedTime_ms)
    \/ StrLess(time, FormatTime(totalElapsedTime_ms))

\* C4 as stated: between two ticks of a running session, every TimeKey of
\* the timeline that the virtual clock has reached or passed has been
\* dispatched.
C4_NoneSkipped ==
    (pc = "idle" /\ experiment_running) =>
        \A time \in TimesOfTimeline :
            ReachedOrPassed(time) => InSeq(time, executed_times)

IsEnd(entry) == entry.task = "__main__" /\ entry.command = <<"end">>

\* C5 as stated: `end` is dispatched at most once and no command is
\* dispatched after it.
C5_NothingAfterEnd ==
    \A i, j \in LogIndexes : (i < j) => ~IsEnd(dispatch_log[i])

LastInstant == scenariocontents[LastTimeIndex(scenariocontents)]

\* C6 as stated: the greatest TimeKey of an accepted timeline holds exactly
\* one command, and that command is `end`.
C6_SolitaryEnd ==
    pc \notin {"init", "aborted"} =>
        /\ Len(LastInstant.tasks) = 1
        /\ Len(LastInstant.tasks[1].cmds) = 1
        /\ LastInstant.tasks[1].cmds[1].command = <<"end">>

\* C7: the virtual clock of a Participant is the value get_time returned
\* last, or its initial value before the first call.
C7_ClockIsLastGetTime ==
    is_client => totalElapsedTime_ms = last_get_time

\* a Participant has ticked and holds a clock value it received
C7_Witness ==
    /\ is_client
    /\ pc = "idle"
    /\ totalElapsedTime_ms > 0
    /\ now - StartTime > totalElapsedTime_ms

TSU == [p \in Plugins |-> PLUGINS_TASK[p].TIME_SINCE_UPDATE]

\* C8: a session pause adds nothing to the clock, to the accumulators or to
\* the number of update calls: these are at all times what they are in the
\* run whose ticks have the same lengths without the time spent paused, and
\* no step taken while experiment_pause is true changes them.
C8_PauseAddsNothing ==
    /\ [](/\ totalElapsedTime_ms = ref_clock
          /\ TSU = ref_TSU
          /\ update_count = ref_updates)
    /\ [][experiment_pause =>
             /\ totalElapsedTime_ms' = totalElapsedTime_ms
             /\ TSU' = TSU
             /\ update_count' = update_count]_vars

\* a process that keeps its own clock has left a pause in which time has
\* passed, and has ticked and updated a plugin since
C8_Witness ==
    /\ ~is_client
    /\ ~experiment_pause
    /\ pc = "idle"
    /\ \E i \in LogIndexes :
           /\ dispatch_log[i].task = "instruction"
           /\ dispatch_log[i].command = <<"start">>
    /\ now - StartTime > totalElapsedTime_ms + MaxConnectDelay
    /\ scenarioTimeStr = T2
    /\ update_count["scoreboard"] >= 1
    /\ update_count["track"] >= 3

TimeCanPass == \E d \in TickLengths : now + d <= StartTime + MaxNow

Silent ==
    /\ is_server
    /\ am_connected
    /\ ~peer_alive
    /\ now - last_client_sync > connection_timeout * 1000

\* C10 as stated: a Host that runs, or is inside the pause barrier, or has
\* ended locally, and whose Participant has made no call for longer than
\* connection_timeout and makes none any more, eventually performs end().
C10_SilenceLeadsToTeardown ==
    (Silent /\ TimeCanPass /\ pc \in {"idle", "barrier"}) ~> (end_calls > 0)

\* the main loop calls scheduler again and again, a coroutine whose sleep
\* is over or whose barrier is open goes on, and time passes
FairSpec ==
    /\ Spec
    /\ WF_vars(Tick)
    /\ WF_vars(TeardownWake)
    /\ WF_vars(waitEndofPause)
    /\ WF_vars(TimePasses)

\* the step of scheduler that decides the teardown of the Host
DecidesTeardown == is_server /\ pc = "idle" /\ pc' = "teardown_sleep"

SilentTooLong == now - last_client_sync > connection_timeout * 1000

\* C11: while its session has not ended locally, a Host decides the teardown
\* only when no confirm_connected or get_sync_data call was made during more
\* than connection_timeout, and performs end() only after that decision.
C11_NoTeardownWhileInContact ==
    [][/\ (DecidesTeardown /\ experiment_running) => SilentTooLong
       /\ (is_server /\ end_calls' # end_calls) => pc = "teardown_sleep"]_vars

\* a running Host has outlived the timeout counted from the first contact,
\* with a gap between two calls that is longer than a tick
C11_Witness ==
    /\ is_server
    /\ experiment_running
    /\ pc = "idle"
    /\ end_calls = 0
    /\ now - StartTime > connection_timeout * 1000 + MaxConnectDelay
    /\ now - last_client_sync >= 2100
    /\ ~SilentTooLong

\* the grace period counted from ended_time, as the specification has it
GraceElapsed == now - ended_time > 10 * 1000

\* C12: a Host whose session has ended locally decides the teardown only
\* after an answer of get_sync_data that carried terminate, unless the
\* Participant has been silent for more than connection_timeout or the grace
\* period has elapsed.
C12_HandshakeBeforeTeardown ==
    [][(DecidesTeardown /\ ~experiment_running) =>
           \/ termination_message_sent /\ "terminate" \in sync_data
           \/ SilentTooLong
           \/ GraceElapsed]_vars

\* a Host has ended locally, has answered get_sync_data with terminate and
\* has then performed end(), the Participant still in contact
C12_Witness ==
    /\ is_server
    /\ end_calls > 0
    /\ termination_message_sent
    /\ "terminate" \in sync_data
    /\ ~SilentTooLong
    /\ ~GraceElapsed

\* C13 as stated: once scheduler has run on a Host whose session has ended
\* locally more than the grace period (and the allowance) ago, the teardown
\* has begun, whether or not the Participant is in contact.
C13_GraceThenTeardown ==
    (/\ is_server
     /\ ~experiment_running
     /\ main_loop_started
     /\ now = last_time_microsec
     /\ now - ended_time > 10 * 1000 + Epsilon)
        => (pc = "teardown_sleep" \/ end_calls > 0)

\* C14: every answer to get_sync_data that a Host produces once its
\* experiment_running flag is false carries terminate, and none before; a
\* Participant that has received terminate has ended its session and exited
\* in that exchange, and dispatches no command afterwards.
C14_TerminatePropagates ==
    /\ [](is_server =>
            /\ termination_message_sent => "terminate" \in sync_data
            /\ "terminate" \in sync_data => ~experiment_running)
    /\ [](is_client /\ "terminate" \in sync_data =>
            ~experiment_running /\ pc = "exited" /\ end_calls > 0)
    /\ [][(is_client /\ "terminate" \in sync_data)
             => dispatch_log' = dispatch_log]_vars

\* a Participant inside the pause barrier has received terminate and exited
C14_Witness ==
    /\ is_client
    /\ "terminate" \in sync_data
    /\ experiment_pause
    /\ pc = "exited"

\* C15: counting the misrouted entries (input for a plugin that has
\* applyNewInputs and is not Host-authoritative) since the last call without
\* error, the first 10 are counted silently and the 11th and every later one
\* is answered by a critical message.
C15_BudgetOfTen ==
    is_server =>
        \A i \in 1..Len(input_log) :
            Misrouted(input_log[i].plugin) =>
                input_log[i].outcome =
                    IF misrouted_seen <= 10 THEN "counted" ELSE "warned"

\* C16: after a call of pass_new_input the error counter is zero if and only
\* if every entry of that call was applied; a call with a malformed or
\* misrouted entry, counted or warned about, leaves it non-zero.
C16_ResetIffErrorFree ==
    (is_server /\ input_log # <<>>) =>
        (error_counter = 0 <=>
            \A i \in 1..Len(input_log) : WellFormed(input_log[i].plugin))

\* the call recorded in log has invoked applyNewInputs of plugin_name
AppliedTo(log, plugin_name) ==
    \E i \in 1..Len(log) :
        log[i].plugin = plugin_name /\ log[i].outcome = "applied"

\* C17: for every entry of every call of pass_new_input, applyNewInputs is
\* invoked if and only if the named plugin exists on the Host, has
\* applyNewInputs and is Host-authoritative; the state of a plugin changes
\* through pass_new_input only when its own entry has been applied.
C17_AppliedIffAuthoritative ==
    /\ [](is_server =>
            \A i \in 1..Len(input_log) :
                input_log[i].outcome = "applied"
                    <=> WellFormed(input_log[i].plugin))
    /\ [][(is_server
             /\ instruction'.partner_terminated # instruction.partner_terminated)
            => AppliedTo(input_log', "instruction")]_vars
    /\ [][(is_server /\ input_log' # input_log
             /\ ~AppliedTo(input_log', "instruction"))
            => /\ instruction' = instruction
               /\ PLUGINS_TASK' = PLUGINS_TASK
               /\ experiment_pause' = experiment_pause]_vars

\* one call carried a misrouted entry, left alone, and an entry of the
\* instruction plugin, applied
C17_Witness ==
    /\ is_server
    /\ Len(input_log) = 2
    /\ input_log[1] = [plugin |-> "track", outcome |-> "counted"]
    /\ input_log[2] = [plugin |-> "instruction", outcome |-> "applied"]
    /\ instruction.partner_terminated

\* a step that changes nothing but the time of the last contact
OnlyContactRefreshed ==
    UNCHANGED << role, scenario_file, scenariocontents, loadedTasks, pc,
                 main_loop_started, exec_idx, PLUGINS_TASK, parameters,
                 scenarioTimeStr, totalElapsedTime_ms, last_time_microsec,
                 elapsed_time_ms, now, am_connected, experiment_pause,
                 experiment_running, termination_message_sent, ended_time,
                 reactor_stopped, instruction, error_counter, host_time,
                 peer_alive, dispatch_log, executed_times, update_count,
                 end_calls, last_get_time, run_since, ref_clock, ref_TSU,
                 ref_updates, sync_data, input_log, misrouted_seen,
                 already_a_main_loop_running, ticks_in_flight,
                 modal, in_pause, started, resumed, closed, exchange,
                 sync_applied, rpc_calls, popped,
                 gen_pc, cur_time, zero_duration_priority, general_priority,
                 segment_text, lowest_earlier, segments_done,
                 arg_secs, arg_priority, time_field, parsed, clock_ms >>

\* C18: an answer to get_sync_data holds, besides terminate, exactly the
\* loaded plugins that have getSyncData and are Host-authoritative;
\* confirm_connected and get_sync_data both set last_client_sync to the
\* current time; confirm_connected on a connected Host leaves it connected
\* and changes nothing but last_client_sync.
C18_SyncAnswerAndContact ==
    /\ [](is_server /\ sync_data # {} =>
            sync_data \ {"terminate"} =
                {plugin_name \in Plugins :
                    /\ HasMethod(plugin_name, "getSyncData")
                    /\ PluginIsServer(plugin_name)})
    /\ [][remote_get_sync_data =>
            /\ sync_data' # {}
            /\ last_client_sync' = now]_vars
    /\ [][remote_confirm_connected =>
            /\ am_connected'
            /\ last_client_sync' = now
            /\ am_connected => OnlyContactRefreshed]_vars

\* a Host in contact for a second time or more: the answer holds the
\* instruction plugin alone and the contact is of this instant
C18_Witness ==
    /\ is_server
    /\ main_loop_started
    /\ sync_data = {"instruction"}
    /\ now > StartTime + MaxConnectDelay
    /\ last_client_sync = now

\* C19: a session that is neither Host nor Participant never calls
\* get_time, get_sync_data or pass_new_input, in the scheduler or in the
\* pause barrier, serves no remote call, and never acts on the teardown
\* test of the Host, however long it has been without a peer.
C19_LocalSessionSkipsNetwork ==
    role = "none" =>
        /\ last_get_time = 0
        /\ sync_data = {}
        /\ input_log = <<>>
        /\ ~instruction.partner_told_terminated
        /\ ~instruction.partner_terminated
        /\ ~am_connected
        /\ last_client_sync = 0
        /\ ~termination_message_sent
        /\ pc # "teardown_sleep"
        /\ ~reactor_stopped

\* a local session has just run scheduler, more than connection_timeout
\* after its start, and goes on
C19_Witness ==
    /\ role = "none"
    /\ pc = "idle"
    /\ experiment_running
    /\ last_time_microsec = now
    /\ now - StartTime > connection_timeout * 1000
    /\ Len(dispatch_log) > 0

\* a local session waits at the pause barrier
C19_WitnessBarrier ==
    /\ role = "none"
    /\ pc = "barrier"
    /\ experiment_pause

\* the scenario files with a line of a wrong number of fields, an unknown
\* task, a malformed time, an unknown verb or an unknown parameter, and the
\* one whose timeline fails validation
MalformedScenarios ==
    {ScenarioBadFieldCount, ScenarioUnknownTask, ScenarioBadTime,
     ScenarioUnknownVerb, ScenarioUnknownParameter, ScenarioNoStart}

C21_CoercionFailsAtCompile ==
    scenario_file = ScenarioBadCoercion =>
        /\ pc \in {"init", "aborted"}
        /\ ~main_loop_started
        /\ dispatch_log = <<>>

\* the number of `start` commands of a task in a timeline
StartsOf(content, task) ==
    LET entries == EntriesOf(content, task)
    IN  Cardinality({e \in 1..Len(entries) : entries[e].command = <<"start">>})

\* C22: in every timeline that the compile has accepted, each task other
\* than the main script has at least one command and exactly one `start`
\* command, and there is at least one such task.
C22_ExactlyOneStart ==
    scenariocontents # <<>> =>
        /\ \A i \in 1..Len(loadedTasks) :
               loadedTasks[i] # "__main__" =>
                   /\ Len(EntriesOf(scenariocontents, loadedTasks[i])) >= 1
                   /\ StartsOf(scenariocontents, loadedTasks[i]) = 1
        /\ \E i \in 1..Len(loadedTasks) : loadedTasks[i] # "__main__"

\* C22, amended: in every timeline that the compile has accepted, each task
\* other than the main script has at least one command and at least one
\* `start` command, and there is at least one such task; a timeline without
\* these is never stored.
C22_AtLeastOneStart ==
    scenariocontents # <<>> =>
        /\ \A i \in 1..Len(loadedTasks) :
               loadedTasks[i] # "__main__" =>
                   /\ Len(EntriesOf(scenariocontents, loadedTasks[i])) >= 1
                   /\ StartsOf(scenariocontents, loadedTasks[i]) >= 1
        /\ \E i \in 1..Len(loadedTasks) : loadedTasks[i] # "__main__"

\* the timeline that starts the track task twice has been accepted and its
\* second start dispatched
C22_Witness ==
    /\ scenario_file = ScenarioRestart
    /\ StartsOf(scenariocontents, "track") = 2
    /\ Len(dispatch_log) >= 3
    /\ PLUGINS_TASK["track"].taskRunning

\* the form H:MM:SS: digits, with colons at the second and fifth place
IsHMMSS(time) ==
    /\ Len(time) = 7
    /\ \A i \in {1, 3, 4, 6, 7} : time[i] \in Digits
    /\ time[2] = ":" /\ time[5] = ":"

\* H:MM:SS, optionally followed by - and a number
WellFormedTime(time) ==
    \/ IsHMMSS(time)
    \/ /\ Len(time) > 8
       /\ IsHMMSS(SubSeq(time, 1, 7))
       /\ time[8] = "-"
       /\ isnumeric(SubSeq(time, 9, Len(time)))

\* C23: the compile accepts a line only if its TIME field is H:MM:SS,
\* optionally followed by -NN with NN numeric, and rejects every other TIME
\* field; the priority of an accepted line is NN, or 0 without suffix, and
\* its time the first seven characters.
C23_TimeFieldForm ==
    LET time == scenario_file[2].time
        c == getCommand(scenario_file[2])
    IN  (scenario_file \in TimeFiles /\ pc # "init") =>
            /\ scenariocontents # <<>> => WellFormedTime(time)
            /\ pc = "aborted" => ~WellFormedTime(time)
            /\ ~c.error <=> WellFormedTime(time)
            /\ ~c.error =>
                   /\ c.time = SubSeq(time, 1, 7)
                   /\ c.priority = IF Len(time) = 7 THEN 0
                                   ELSE IntOfDigits(SubSeq(time, 9, Len(time)))

\* executeScenario is about to run the lifecycle command verb
Dispatching(verb) ==
    /\ pc = "exec"
    /\ CurrentQueue[exec_idx].command = <<verb>>

\* C24: the dispatch of a pause command leaves the session paused
\* (experiment_pause true), the dispatch of a resume command leaves it
\* running, and the virtual clock does not advance while the session is
\* paused.
C24_PauseCommandPausesSession ==
    /\ [][Dispatching("pause") => experiment_pause']_vars
    /\ [][Dispatching("resume") => ~experiment_pause']_vars
    /\ [][experiment_pause => totalElapsedTime_ms' = totalElapsedTime_ms]_vars

\* Main.onPause runs in this step / Main.onResume runs in this step
SessionPauses == ~experiment_pause /\ experiment_pause'

SessionResumes == experiment_pause /\ ~experiment_pause'

\* C25: onPause records the paused flag of every plugin, and the onResume
\* that follows gives every plugin the paused flag it had before the pause,
\* whether the plugin was running or not.
C25_PauseResumeRestoresFlags ==
    /\ [][SessionPauses =>
            \A p \in Plugins \ {CurrentQueue[exec_idx].task} :
                PLUGINS_TASK'[p].taskPreviouslyPaused = PLUGINS_TASK[p].taskPaused]_vars
    /\ [][SessionResumes =>
            \A p \in Plugins :
                PLUGINS_TASK'[p].taskPaused = PLUGINS_TASK[p].taskPreviouslyPaused]_vars

\* the commands of the current TimeKey executed so far
ExecutedAtCurrentTime ==
    SelectSeq(dispatch_log, LAMBDA e : e.time = scenarioTimeStr)

\* C26: no scenario command is executed while the session is paused; the
\* dispatcher waits at the barrier as long as the pause lasts, and the
\* commands executed at a TimeKey are at every moment the first ones of its
\* tier order, so that those left when the session pauses follow in that
\* order once it has resumed.
C26_PauseBarrier ==
    /\ [][dispatch_log' # dispatch_log => ~experiment_pause]_vars
    /\ [](experiment_pause => pc \in {"barrier", "exited"})
    /\ [](scenariocontents # <<>> /\ scenarioTimeStr # NoTimeStr =>
            LET done == ExecutedAtCurrentTime
            IN  /\ Len(done) <= Len(CurrentQueue)
                /\ \A i \in 1..Len(done) : done[i].line = CurrentQueue[i].line)

\* the command that follows the start of the instruction screen at 0:00:01
\* has been executed after the session was paused and resumed
C26_Witness ==
    /\ scenario_file = ScenarioModal
    /\ scenarioTimeStr = T1
    /\ ~experiment_pause
    /\ Len(ExecutedAtCurrentTime) = 2
    /\ ExecutedAtCurrentTime[1].task = "instruction"
    /\ ExecutedAtCurrentTime[2].task = "track"
    /\ ~instruction.active

C28_StoppedSessionIsInert ==
    [][(Tick \/ TeardownWake) /\ ~experiment_running'
         => /\ UNCHANGED << totalElapsedTime_ms, scenarioTimeStr, update_count,
                            dispatch_log, executed_times, exec_idx >>
            /\ \A p \in Plugins :
                 PLUGINS_TASK'[p].TIME_SINCE_UPDATE = PLUGINS_TASK[p].TIME_SINCE_UPDATE
            /\ instruction'.partner_terminated = instruction.partner_terminated
            /\ pc' # "exec"]_vars

\* the Host has run a tick after the session was ended, with commands of
\* the scenario still to come
C28_Witness ==
    /\ is_server
    /\ ~experiment_running
    /\ ~reactor_stopped
    /\ pc = "idle"
    /\ last_time_microsec > ended_time
    /\ \E i \in 1..Len(scenariocontents) :
         \A j \in 1..Len(executed_times) :
            executed_times[j] # scenariocontents[i].time

(***************************************************************************)
(* A Host and its Participant at modal screens of the instruction plugin   *)
(* that one TimeKey starts one after the other.  Both processes run the    *)
(* same scenario; the state of each side is the state of its plugin and    *)
(* its experiment_pause.  The variables of the single process stay as they *)
(* are.                                                                    *)
(***************************************************************************)
\* the number of consecutive `instruction;start' commands of the TimeKey
MaxScreens == 2

process_vars ==
    << role, scenario_file, scenariocontents, loadedTasks, pc,
       main_loop_started, exec_idx, PLUGINS_TASK, parameters,
       scenarioTimeStr, totalElapsedTime_ms, last_time_microsec,
       elapsed_time_ms, now, last_client_sync, am_connected,
       experiment_pause, experiment_running, termination_message_sent,
       ended_time, reactor_stopped, instruction, error_counter,
       host_time, peer_alive, dispatch_log, executed_times, update_count,
       end_calls, last_get_time, run_since, ref_clock, ref_TSU, ref_updates,
       sync_data, input_log, misrouted_seen,
       already_a_main_loop_running, ticks_in_flight,
       sync_applied, rpc_calls, popped >>

session_vars ==
    << role, scenario_file, scenariocontents, loadedTasks, pc,
       main_loop_started, exec_idx, PLUGINS_TASK, parameters,
       scenarioTimeStr, totalElapsedTime_ms, last_time_microsec,
       elapsed_time_ms, now, last_client_sync, am_connected,
       experiment_pause, experiment_running, termination_message_sent,
       ended_time, reactor_stopped, instruction, error_counter,
       host_time, peer_alive, dispatch_log, executed_times, update_count,
       end_calls, last_get_time, run_since, ref_clock, ref_TSU, ref_updates,
       sync_data, input_log, misrouted_seen,
       already_a_main_loop_running, ticks_in_flight,
       sync_applied, rpc_calls, popped,
       gen_pc, cur_time, zero_duration_priority, general_priority,
       segment_text, lowest_earlier, segments_done,
       arg_secs, arg_priority, time_field, parsed, clock_ms >>

\* instruction.onStart: parent().onPause(), then the termination state is
\* initialised and active set
StartedModal == [terminated |-> FALSE, partner_terminated |-> FALSE,
                 partner_told_terminated |-> FALSE, active |-> TRUE]

\* onStart on side s
ModalStarts(s) ==
    /\ modal' = [modal EXCEPT ![s] = StartedModal]
    /\ in_pause' = [in_pause EXCEPT ![s] = TRUE]
    /\ started' = [started EXCEPT ![s] = @ + 1]

\* the Host executes the next `instruction;start': in the tick that reaches
\* the TimeKey, or when waitEndofPause has returned
HostStarts ==
    /\ ~in_pause["host"]
    /\ started["host"] < MaxScreens
    /\ ModalStarts("host")
    /\ UNCHANGED << resumed, closed, exchange >>
    /\ UNCHANGED session_vars

\* the Participant executes the next `instruction;start': in the tick whose
\* get_time returns the TimeKey, which the clock of the Host has reached
\* when the Host has started its first screen, or when waitEndofPause has
\* returned
ParticipantStarts ==
    /\ ~in_pause["participant"]
    /\ exchange = "none"
    /\ started["participant"] < MaxScreens
    /\ started["host"] >= 1
    /\ ModalStarts("participant")
    /\ UNCHANGED << resumed, closed, exchange >>
    /\ UNCHANGED session_vars

\* terminate_event in network mode: the Continue button or the duration
\* timer, delivered by processEvents
ModalTerminateEvent(s) ==
    /\ modal[s].active
    /\ ~modal[s].terminated
    /\ modal' = [modal EXCEPT ![s].terminated = TRUE]
    /\ closed' = [closed EXCEPT ![s] = @ + 1]
    /\ UNCHANGED << in_pause, started, resumed, exchange >>
    /\ UNCHANGED session_vars

\* the Host processes Qt events in the loop of waitEndofPause
HostUserTerminates ==
    /\ in_pause["host"]
    /\ ModalTerminateEvent("host")

\* the Participant processes Qt events between two exchanges
ParticipantUserTerminates ==
    /\ exchange = "none"
    /\ ModalTerminateEvent("participant")

\* applySyncData / applyNewInputs of the plugin of side s with the flag
\* received: terminate() (Main.onResume) if the plugin is active, then the
\* flag is recorded
ModalApplies(s, received, m) ==
    LET resumes == ShouldTerminate(m[s], received) /\ m[s].active
        recorded == [m[s] EXCEPT !.partner_terminated = received]
    IN  /\ modal' = [m EXCEPT ![s] = IF resumes THEN TerminatedInstruction(recorded)
                                     ELSE recorded]
        /\ in_pause' = [in_pause EXCEPT ![s] = IF resumes THEN FALSE ELSE @]
        /\ resumed' = [resumed EXCEPT ![s] = IF resumes THEN @ + 1 ELSE @]

\* the Participant is in a tick of the main loop (before its first screen
\* or after its last) or in the loop of waitEndofPause
ParticipantExchanges ==
    \/ in_pause["participant"]
    \/ started["participant"] = 0
    \/ started["participant"] = MaxScreens

\* doNetworkCommunications, first call: popNewInputs of the Participant,
\* remote_pass_new_input and applyNewInputs on the Host
ParticipantPassesInput ==
    /\ exchange = "none"
    /\ ParticipantExchanges
    /\ exchange' = "passed"
    /\ ModalApplies("host", modal["participant"].terminated,
                    [modal EXCEPT !["participant"] = ToldPartner(@)])
    /\ UNCHANGED << started, closed >>
    /\ UNCHANGED session_vars

\* doNetworkCommunications, second call: remote_get_sync_data and
\* getSyncData on the Host; the loop of waitEndofPause gives the answer to
\* applySyncData, a tick does not (the plugin has no UPDATE_TIME)
ParticipantGetsSyncData ==
    /\ exchange = "passed"
    /\ exchange' = "none"
    /\ IF in_pause["participant"]
       THEN ModalApplies("participant", modal["host"].terminated,
                         [modal EXCEPT !["host"] = ToldPartner(@)])
       ELSE /\ modal' = [modal EXCEPT !["host"] = ToldPartner(@)]
            /\ UNCHANGED << in_pause, resumed >>
    /\ UNCHANGED << started, closed >>
    /\ UNCHANGED session_vars

ModalInit == InitOn({ScenarioModal}) /\ role = "server"

ModalNext ==
    \/ HostStarts
    \/ ParticipantStarts
    \/ HostUserTerminates
    \/ ParticipantUserTerminates
    \/ ParticipantPassesInput
    \/ ParticipantGetsSyncData

ModalSpec == ModalInit /\ [][ModalNext]_vars

\* the Participant keeps exchanging and both processes keep running; no
\* user is obliged to press a button
FairModalSpec ==
    /\ ModalSpec
    /\ WF_vars(HostStarts)
    /\ WF_vars(ParticipantStarts)
    /\ WF_vars(ParticipantPassesInput)
    /\ WF_vars(ParticipantGetsSyncData)

\* C29: neither process leaves a modal screen before the user of the Host
\* and the user of the Participant have both terminated that screen.
C29_ResumeAfterBothTerminated ==
    \A s \in Sides :
       /\ resumed[s] <= closed["host"]
       /\ resumed[s] <= closed["participant"]

AdvancingTick ==
    /\ Tick
    /\ ~SkipsRest(experiment_pause, experiment_running')
    /\ pc' \notin {"teardown_sleep", "exited"}

\* the exchange of this tick has fetched a payload for plugin p, which is
\* in the client role
PendingPayload(p) == is_client /\ p \in sync_data' /\ PluginIsClient(p)

UpdatedInFull(p) ==
    /\ update_count'[p] = update_count[p] + 1
    /\ PLUGINS_TASK'[p].TIME_SINCE_UPDATE = 0
    /\ PendingPayload(p) => sync_applied'[p] = "full"

UpdatedInPart(p) ==
    /\ update_count'[p] = update_count[p]
    /\ PLUGINS_TASK'[p].TIME_SINCE_UPDATE < PLUGINS_TASK[p].UPDATE_TIME
    /\ PendingPayload(p) => sync_applied'[p] = "partial"

\* C31: in a tick that advances the clock every loaded plugin with an
\* update interval is either updated (hook invoked, pending payload applied
\* as a full update, accumulator 0) or not (accumulator below the interval,
\* hook not invoked, pending payload applied as a partial update), and
\* never both.
C31_FullOrPartialUpdate ==
    [][AdvancingTick
         => \A p \in Plugins :
               IsLoaded(p) /\ PLUGINS_TASK[p].UPDATE_TIME # None
                 => (UpdatedInFull(p) /\ ~UpdatedInPart(p))
                    \/ (UpdatedInPart(p) /\ ~UpdatedInFull(p))]_vars

LifecycleVerbs == {"start", "stop", "show", "hide", "pause", "resume"}

\* executeScenario is about to run a lifecycle command of a plugin
DispatchingToPlugin ==
    /\ pc = "exec"
    /\ CurrentQueue[exec_idx].task \in Plugins
    /\ Len(CurrentQueue[exec_idx].command) = 1
    /\ CurrentQueue[exec_idx].command[1] \in LifecycleVerbs

\* the three flags of plugin p after the command, the rest of its state and
\* the state of every other plugin being as before
OnlyFlagsChange(p, running, paused_flag, visible) ==
    PLUGINS_TASK' = [PLUGINS_TASK EXCEPT ![p] =
                        [@ EXCEPT !.taskRunning = running,
                                  !.taskPaused = paused_flag,
                                  !.taskVisible = visible]]

\* the flags the command is to leave, by verb
FlagsAsSpecified ==
    LET p == CurrentQueue[exec_idx].task
        verb == CurrentQueue[exec_idx].command[1]
        pt == PLUGINS_TASK[p]
    IN  CASE verb = "start" -> OnlyFlagsChange(p, TRUE, FALSE, TRUE)
          [] verb = "stop" -> OnlyFlagsChange(p, FALSE, TRUE, FALSE)
          [] verb = "show" -> OnlyFlagsChange(p, pt.taskRunning, pt.taskPaused, TRUE)
          [] verb = "hide" -> OnlyFlagsChange(p, pt.taskRunning, pt.taskPaused, FALSE)
          [] verb = "pause" -> OnlyFlagsChange(p, pt.taskRunning, TRUE, pt.taskVisible)
          [] verb = "resume" -> OnlyFlagsChange(p, pt.taskRunning, FALSE, pt.taskVisible)

\* in ScenarioBasic (start, pause, resume and end one second apart) the
\* task is paused exactly during the second between pause and resume
ExampleTimeline ==
    scenario_file = ScenarioBasic /\ pc = "idle" /\ experiment_running
      => /\ PLUGINS_TASK["track"].taskRunning
         /\ PLUGINS_TASK["track"].taskPaused <=> scenarioTimeStr = T1

CallsOf(c) == {i \in 1..Len(rpc_calls') : rpc_calls'[i] = c}

\* the step is one exchange followed by at most the clock request
OneExchangeFirst ==
    /\ CallsOf("pass_new_input") = {1}
    /\ CallsOf("get_sync_data") = {2}
    /\ CallsOf("get_time") \subseteq {3}
    /\ Len(rpc_calls') <= 3

\* C33: every tick of a Participant that passes the elapsed-time floor
\* makes exactly one exchange, pass_new_input and then get_sync_data,
\* before anything else; get_time follows the exchange and only when the
\* session is neither paused nor stopped, and the clock advances only in a
\* tick that requested it. While the session is paused the pause barrier
\* goes on making the same exchange, without get_time. A Host or local
\* tick makes no remote call.
C33_ExchangeBeforeClock ==
    /\ [][Tick =>
            /\ is_client => OneExchangeFirst
            /\ is_client /\ CallsOf("get_time") # {}
                 => ~experiment_pause /\ experiment_running /\ experiment_running'
            /\ is_client /\ totalElapsedTime_ms' # totalElapsedTime_ms
                 => CallsOf("get_time") = {3}
            /\ ~is_client => rpc_calls' = <<>>]_vars
    /\ [][waitEndofPauseExchange =>
            OneExchangeFirst /\ CallsOf("get_time") = {}]_vars

\* a Participant has ticked with the session running: exchange, then clock
C33_Witness ==
    /\ is_client
    /\ pc = "idle"
    /\ rpc_calls = ExchangeCalls \o <<"get_time">>
    /\ totalElapsedTime_ms > 0

\* a Participant in the pause barrier has made an exchange
C33_PausedExchange ==
    /\ is_client
    /\ pc = "barrier"
    /\ experiment_pause
    /\ rpc_calls = ExchangeCalls

SyncApplying == Tick \/ TeardownWake \/ waitEndofPauseExchange

Applied(p) == sync_applied'[p] \in {"full", "partial"}

\* C34: a payload is applied only on a Participant, and only to a plugin
\* whose is_client() is true and that has applySyncData; popNewInputs is
\* called only on a Participant and only for plugins in the client role;
\* a Host or local process applies nothing and collects no inputs.
C34_OnlyClientRoleApplies ==
    [][SyncApplying =>
        /\ \A p \in Plugins :
             Applied(p) => /\ is_client
                           /\ PluginIsClient(p)
                           /\ HasMethod(p, "applySyncData")
                           /\ p \in sync_data'
        /\ \A p \in popped' : is_client /\ PluginIsClient(p)
        /\ ~is_client => popped' = {}]_vars

\* a Participant has refused the payload of a plugin in the server role and
\* collected no inputs from it
C34_Witness ==
    /\ is_client
    /\ PluginNetwork("track") = "server"
    /\ sync_applied["track"] = "refused"
    /\ "track" \notin popped
    /\ "instruction" \in popped

\* a Participant has applied the payload of a plugin in the client role
C34_AppliedToClientRole ==
    /\ is_client
    /\ PluginNetwork("track") = "as_host"
    /\ sync_applied["track"] \in {"full", "partial"}
    /\ "track" \in popped

\* the step has invoked the onUpdate hook of plugin p
HookInvoked(p) == update_count'[p] > update_count[p]

\* C35: the onUpdate hook of a plugin is invoked only while the plugin is
\* running and not paused and the session is not paused: never before its
\* first Start, after a Stop, between a Pause and a Resume, or during a
\* session pause.
C35_UpdateOnlyWhileRunning ==
    [][\A p \in Plugins :
         HookInvoked(p) => /\ PLUGINS_TASK[p].taskRunning
                           /\ ~PLUGINS_TASK[p].taskPaused
                           /\ ~experiment_pause]_vars

\* the part of C35 that the update loop keeps: no hook for a paused plugin
\* and none during a session pause
C35_NoUpdateWhilePaused ==
    [][\A p \in Plugins :
         HookInvoked(p) => ~PLUGINS_TASK[p].taskPaused /\ ~experiment_pause]_vars

\* a plugin that was never started has been updated
C35_UpdatedBeforeStart ==
    \E p \in Plugins :
        /\ update_count[p] > 0
        /\ ~PLUGINS_TASK[p].taskRunning
        /\ \A i \in 1..Len(dispatch_log) : dispatch_log[i].task # p

\* the TimeKeys the Host has reached when its clock shows ms
HostTimeKeysUpTo(ms) == {FormatTime(secs * 1000) : secs \in 0..(ms \div 1000)}

\* C36: the clock of a Participant is never ahead of the clock of its Host,
\* neither clock ever goes back, and every TimeKey a Participant has
\* reached or dispatched is one the Host has reached.
C36_ParticipantNeverAhead ==
    /\ [](is_client => totalElapsedTime_ms <= host_time)
    /\ [][/\ totalElapsedTime_ms' >= totalElapsedTime_ms
          /\ host_time' >= host_time]_vars
    /\ [](is_client =>
            /\ scenarioTimeStr \in HostTimeKeysUpTo(host_time) \cup {NoTimeStr}
            /\ \A i \in 1..Len(executed_times) :
                 executed_times[i] \in HostTimeKeysUpTo(host_time))

\* a Participant behind its Host has dispatched the commands of 0:00:01
C36_Witness ==
    /\ is_client
    /\ pc = "idle"
    /\ totalElapsedTime_ms >= 1000
    /\ totalElapsedTime_ms < host_time
    /\ scenarioTimeStr = T1
    /\ \E i \in 1..Len(executed_times) : executed_times[i] = T1

\* the step is an exchange of a Participant that goes on running
Fetching == (Tick \/ waitEndofPauseExchange) /\ is_client /\ pc' # "exited"

\* the events the Host's getSyncData has handed out for plugin p in this
\* exchange, and removed from its record, are owed to the Participant's p
Owed(p) ==
    /\ p \in sync_data'
    /\ ClearsRecord(p)
    /\ PluginIsClient(p)
    /\ HasMethod(p, "applySyncData")

\* C37: no sync data is lost: whatever getSyncData has handed out (and
\* cleared from the Host's record) for a plugin in the client role is given
\* to that plugin's applySyncData in the same exchange, whether the plugin
\* is paused, the Participant is in the pause barrier, or the plugin has no
\* update interval.
C37_NoSyncDataLost ==
    [][Fetching => \A p \in Plugins : Owed(p) => Applied(p)]_vars

\* the payloads that are not lost: those of a plugin that is loaded, not
\* paused and has an update interval, fetched by a clock-advancing tick
C37_AppliedWhenUpdating ==
    [][Fetching /\ AdvancingTick =>
         \A p \in Plugins :
             Owed(p) /\ IsLoaded(p) /\ Accumulates(PLUGINS_TASK[p]) => Applied(p)]_vars

\* a Participant in the pause barrier has fetched events of track and has
\* not applied them
C37_LostInBarrier ==
    /\ is_client
    /\ pc = "barrier"
    /\ "track" \in sync_data
    /\ PluginIsClient("track")
    /\ sync_applied["track"] = "none"
    /\ rpc_calls = ExchangeCalls

(***************************************************************************)
(* The scenario generator: ScenarioGenerator.generate, one iteration of    *)
(* its loop over the segments per step.  A segment has a duration, a       *)
(* number of instruction screens, a number of scale screens and possibly   *)
(* the scoreboard; the other tasks emit, like the scoreboard, commands     *)
(* without priority at the start and at the end of the segment.            *)
(***************************************************************************)
MaxSegments == 12
MaxScreensPerSegment == 1
SegmentDurations == {0, 1}

SegmentConfigs ==
    [duration : SegmentDurations,
     instructions_details : 0..MaxScreensPerSegment,
     scales_details : 0..MaxScreensPerSegment,
     scoreboard_enabled : BOOLEAN]

\* construct_command, the TIME field left in its two arguments
construct_command(time_secs, command_words, command_priority) ==
    [time_secs |-> time_secs, words |-> command_words,
     priority |-> command_priority]

\* generate_instructions: filename and start of each screen, the priority
\* going down by one from base_priority + num_commands - 1
generate_instructions(start_time, screens, base_priority) ==
    [i \in 1..(2 * screens) |->
        construct_command(start_time,
            IF i % 2 = 1 THEN <<"instruction", "filename">>
            ELSE <<"instruction", "start">>,
            base_priority + 2 * screens - i)]

\* generate_scales: num_commands is the number of screens, each of which
\* has two commands
generate_scales(start_time, screens, base_priority) ==
    [i \in 1..(2 * screens) |->
        construct_command(start_time,
            IF i % 2 = 1 THEN <<"genericscales", "filename">>
            ELSE <<"genericscales", "start">>,
            base_priority + screens - i)]

\* generate_scoreboard: no priority is given to construct_command
generate_scoreboard(start_time, duration) ==
    << construct_command(start_time, <<"scoreboard", "show">>, None),
       construct_command(start_time, <<"scoreboard", "resume">>, None),
       construct_command(start_time + duration, <<"scoreboard", "pause">>, None),
       construct_command(start_time + duration, <<"scoreboard", "hide">>, None) >>

generate_segment(segment, start_time, general) ==
    << construct_command(start_time, <<"flag", "flag", "begin">>,
                         general + FLAG_PRIORITY) >>
    \o generate_instructions(start_time, segment.instructions_details,
                             general + MIN_INSTRUCTION_PRIORITY)
    \o generate_scales(start_time, segment.scales_details,
                       general + MIN_SCALES_PRIORITY)
    \o (IF segment.scoreboard_enabled
        THEN generate_scoreboard(start_time, segment.duration) ELSE <<>>)
    \o << construct_command(start_time + segment.duration,
                            <<"flag", "flag", "end">>,
                            IF segment.duration = 0 THEN general
                            ELSE general + END_FLAG_PRIORITY) >>

\* getCommand: a TIME field without priority is given priority 0
Rank(c) == IF c.priority = None THEN 0 ELSE c.priority

\* the lowest rank among the commands of text whose time is time_secs
LowestAt(text, time_secs, sofar) ==
    LET ranks == {Rank(text[i]) : i \in {j \in 1..Len(text) :
                                            text[j].time_secs = time_secs}}
                 \cup (IF sofar = None THEN {} ELSE {sofar})
    IN  IF ranks = {} THEN None
        ELSE CHOOSE r \in ranks : \A q \in ranks : r <= q

\* generate: `if zero_duration_priority < ZERO_DURATION_PRIORITY_DECREMENT`
PoolExhausted(pool) == pool < ZERO_DURATION_PRIORITY_DECREMENT

\* generate: the body of the loop, for one segment
GenerateSegment ==
    /\ gen_pc = "generating"
    /\ segments_done < MaxSegments
    /\ \E segment \in SegmentConfigs :
         IF segment.duration = 0 /\ PoolExhausted(zero_duration_priority)
         THEN /\ gen_pc' = "raised"
              /\ UNCHANGED << cur_time, zero_duration_priority, general_priority,
                              segment_text, lowest_earlier, segments_done >>
         ELSE LET general == IF segment.duration = 0
                             THEN zero_duration_priority ELSE 0
                  text == generate_segment(segment, cur_time, general)
              IN  /\ segment_text' = text
                  /\ general_priority' = general
                  /\ zero_duration_priority' =
                        IF segment.duration = 0
                        THEN zero_duration_priority
                               - ZERO_DURATION_PRIORITY_DECREMENT
                        ELSE ZERO_DURATION_BASE_PRIORITY
                  /\ cur_time' = cur_time + segment.duration
                  /\ lowest_earlier' =
                        IF segment.duration = 0
                        THEN LowestAt(text, cur_time, lowest_earlier)
                        ELSE None
                  /\ segments_done' = segments_done + 1
                  /\ UNCHANGED gen_pc
    /\ UNCHANGED << process_vars, pair_vars, trip_vars >>

\* generate: the commands after the loop, stop of the active tasks and end
CloseScenario ==
    /\ gen_pc = "generating"
    /\ gen_pc' = "closed"
    /\ segment_text' =
          << construct_command(cur_time, <<"scoreboard", "stop">>, None),
             construct_command(cur_time + 1, <<"end">>, None) >>
    /\ cur_time' = cur_time + 1
    /\ lowest_earlier' = None
    /\ UNCHANGED << zero_duration_priority, general_priority, segments_done >>
    /\ UNCHANGED << process_vars, pair_vars, trip_vars >>

GenInit == InitOn({ScenarioBasic}) /\ role = "none"

GenNext == GenerateSegment \/ CloseScenario

GenSpec == GenInit /\ [][GenNext]_vars

\* the step has generated a segment of duration zero / of some duration
ZeroDurationGenerated ==
    GenerateSegment /\ segments_done' = segments_done + 1 /\ cur_time' = cur_time

DurationGenerated ==
    GenerateSegment /\ segments_done' = segments_done + 1 /\ cur_time' > cur_time

\* the priorities of the pool: 100000, 90000, ..., 10000
PoolPriorities ==
    {ZERO_DURATION_BASE_PRIORITY - k * ZERO_DURATION_PRIORITY_DECREMENT :
        k \in 0..(ZERO_DURATION_BASE_PRIORITY \div ZERO_DURATION_PRIORITY_DECREMENT - 1)}

\* consecutive zero-duration segments get the priorities of the pool one
\* after the other, a segment with a duration resets the pool, the
\* generator raises exactly when the pool is below one decrement, and no
\* command has a negative priority
PoolRule ==
    /\ ZeroDurationGenerated =>
           /\ general_priority' = zero_duration_priority
           /\ general_priority' \in PoolPriorities
           /\ zero_duration_priority' =
                 zero_duration_priority - ZERO_DURATION_PRIORITY_DECREMENT
    /\ DurationGenerated =>
           /\ general_priority' = 0
           /\ zero_duration_priority' = ZERO_DURATION_BASE_PRIORITY
    /\ GenerateSegment /\ gen_pc' = "raised" =>
           /\ zero_duration_priority < ZERO_DURATION_PRIORITY_DECREMENT
           /\ segment_text' = segment_text
    /\ \A i \in 1..Len(segment_text') :
           segment_text'[i].priority = None \/ segment_text'[i].priority >= 0

\* every command the segment has at the TimeKey of earlier zero-duration
\* segments ranks below every command of those
EarlierOutrank ==
    \A i \in 1..Len(segment_text') :
        /\ lowest_earlier # None
        /\ segment_text'[i].time_secs = cur_time
        => Rank(segment_text'[i]) < lowest_earlier

\* C38: consecutive zero-duration segments get strictly decreasing general
\* priorities from 100000 in steps of 10000, the pool is reset after a
\* segment with a duration, the generator raises instead of emitting once
\* the pool is below one decrement, no priority is negative, and every
\* command of an earlier zero-duration segment outranks every command of a
\* later segment at the same TimeKey.
C38_ZeroDurationOutranks ==
    [][GenerateSegment => PoolRule /\ EarlierOutrank]_vars

\* the part of C38 about the pool
C38_PoolNeverUnderflows == [][GenerateSegment => PoolRule]_vars

\* the pool has been used up by ten zero-duration segments and the
\* generator has raised at the eleventh
C38_PoolUsedUp ==
    /\ gen_pc = "raised"
    /\ zero_duration_priority = 0
    /\ general_priority = ZERO_DURATION_PRIORITY_DECREMENT

(***************************************************************************)
(* A TIME field from the generator's secs_to_time through getCommand, and  *)
(* the string scenarioUpdateTime formats in the same second.               *)
(***************************************************************************)
\* the first clock value scenarioUpdateTime reports as an overflow (h > 9)
TenHours == 36000

SecsInputs == {0, 1, 59, 60, 61, 599, 3599, 3600, 3661, 35999, TenHours}

PriorityInputs == {None, 0, 1, 5, 9, 10, 99, 100, 1000, 100000, 101000}

\* a generator that writes the hours with two digits, as HH:MM:SS
secs_to_time_HHMMSS(secs, priority_arg) ==
    LET hours == secs \div 3600
        mins == (secs - hours * 3600) \div 60
        s == secs - hours * 3600 - mins * 60
        hms == Format02D(hours) \o <<":">> \o Format02D(mins) \o <<":">>
               \o Format02D(s)
    IN  IF priority_arg = None THEN hms
        ELSE hms \o <<"-">> \o Format02D(priority_arg)

\* secs_to_time: "{:01d}:{:02d}:{:02d}" and, with a priority, "-{:02d}"
secs_to_time(secs, priority_arg) ==
    LET hours == secs \div 3600
        mins == (secs - hours * 3600) \div 60
        s == secs - hours * 3600 - mins * 60
        hms == FormatD(hours) \o <<":">> \o Format02D(mins) \o <<":">>
               \o Format02D(s)
    IN  IF priority_arg = None THEN hms
        ELSE hms \o <<"-">> \o Format02D(priority_arg)

\* construct_command: the generator writes the TIME field of a command
WriteTimeField ==
    /\ time_field = NoTimeStr
    /\ time_field' = secs_to_time(arg_secs, arg_priority)
    /\ UNCHANGED << arg_secs, arg_priority, parsed, clock_ms >>
    /\ UNCHANGED << process_vars, pair_vars, gen_vars >>

\* getCommand on the line `<TIME>;track;start`
ParseTimeField ==
    /\ time_field # NoTimeStr
    /\ parsed = NotParsed
    /\ parsed' = getCommand([time |-> time_field, rest |-> <<"track", "start">>])
    /\ UNCHANGED << arg_secs, arg_priority, time_field, clock_ms >>
    /\ UNCHANGED << process_vars, pair_vars, gen_vars >>

\* scenarioUpdateTime with the virtual clock somewhere in second arg_secs
ClockInSecond ==
    /\ parsed # NotParsed
    /\ \E ms \in {0, 1, 500, 999} :
         /\ clock_ms' = arg_secs * 1000 + ms
         /\ clock_ms' # clock_ms
         /\ scenarioTimeStr' = FormatTime(clock_ms')
    /\ UNCHANGED << arg_secs, arg_priority, time_field, parsed >>
    /\ UNCHANGED << role, scenario_file, scenariocontents, loadedTasks, pc,
                    main_loop_started, exec_idx, PLUGINS_TASK, parameters,
                    totalElapsedTime_ms, last_time_microsec,
                    elapsed_time_ms, now, last_client_sync, am_connected,
                    experiment_pause, experiment_running,
                    termination_message_sent, ended_time, reactor_stopped,
                    instruction, error_counter, host_time, peer_alive,
                    dispatch_log, executed_times, update_count, end_calls,
                    last_get_time, run_since, ref_clock, ref_TSU, ref_updates,
                    sync_data, input_log, misrouted_seen,
                    already_a_main_loop_running, ticks_in_flight,
                    sync_applied, rpc_calls, popped >>
    /\ UNCHANGED << pair_vars, gen_vars >>

RoundTripInit ==
    /\ ProcessInit({ScenarioBasic})
    /\ role = "none"
    /\ GeneratorStart
    /\ arg_secs \in SecsInputs
    /\ arg_priority \in PriorityInputs
    /\ time_field = NoTimeStr
    /\ parsed = NotParsed
    /\ clock_ms = 0

RoundTripNext == WriteTimeField \/ ParseTimeField \/ ClockInSecond

RoundTripSpec == RoundTripInit /\ [][RoundTripNext]_vars

C40_TeardownAtMostOnce == end_calls <= 1

\* the part of C40 about the Host: its end() runs once, after the sleep of
\* the teardown branch, and the stopped reactor starts no further tick
C40_HostEndsOnce == is_server => end_calls <= 1

\* a Host has torn down: end() has run and the loop has ended
C40_HostTornDown ==
    /\ is_server
    /\ pc = "ended"
    /\ reactor_stopped
    /\ end_calls = 1

====
